---- MODULE Spec2Model ----
(***************************************************************************)
(* The match engine of the turn-based board game server, in its three      *)
(* variants:                                                               *)
(*   "p0"  src/unnamed/part_000  (6x7 board, move-then-attack)             *)
(*   "p1"  src/unnamed/part_001  (board size requested by the creator)     *)
(*   "srv" src/server.js         (7x7 board, nations)                      *)
(* One match (one roomId) is modelled: its GameRoom object, the entry of   *)
(* gameRooms that holds it, and the sockets that may join it.  Every       *)
(* socket.io handler is one atomic action (Node runs a handler to          *)
(* completion before the next event).                                      *)
(***************************************************************************)
EXTENDS Integers, Sequences, FiniteSets, TLC

VARIABLES
    variant,      \* which source file runs: "p0", "p1" or "srv"
    scn,          \* the environment: which clients connect and what they send
    gameRooms,    \* TRUE iff gameRooms.has(roomId)
    players,      \* GameRoom.players: the Map in insertion order
    spectators,   \* GameRoom.spectators: a Set of socket ids
    gameState,    \* GameRoom.gameState
    boardSize,    \* GameRoom.boardSize, <<width, height>>
    socketRooms,  \* per socket: "new" (connected), "in" (socket.rooms holds roomId),
                  \* "away" (socket.rooms holds another room's id), "gone"
    turns,        \* battle turns ended so far in this match (bounds the exploration)
    selects       \* selectNation intents accepted so far (bounds the exploration)

vars == <<variant, scn, gameRooms, players, spectators, gameState, boardSize,
          socketRooms, turns, selects>>

-----------------------------------------------------------------------------
(* Bounds of the exploration *)

MaxTurns == 3
MaxSelects == 3

-----------------------------------------------------------------------------
(* JavaScript values *)

\* a property that was never set (pieces['Horse Archer'] of an English roster)
undefined == -1
\* undefined-- and every sum that contains it
NaN == -2
\* an empty board cell (null, or a column the row array does not hold)
null == [type |-> "null"]
\* gameState.selectedCell === null
nullCell == <<>>
\* piece.chargeDirection null or undefined
nullDir == <<0, 0>>

Abs(x) == IF x < 0 THEN -x ELSE x
Sign(x) == IF x > 0 THEN 1 ELSE IF x < 0 THEN -1 ELSE 0

\* x-- on a roster count
jsDec(x) == IF x = undefined \/ x = NaN THEN NaN ELSE x - 1

Types == {"General", "Cavalry", "Horse Archer", "Heavy Infantry", "Light Infantry", "Archer"}

RECURSIVE sumOver(_, _)
sumOver(f, S) ==
    IF S = {} THEN 0
    ELSE LET t == CHOOSE x \in S : TRUE
             rest == sumOver(f, S \ {t})
         IN IF f[t] = undefined THEN rest
            ELSE IF f[t] = NaN \/ rest = NaN THEN NaN
            ELSE f[t] + rest

\* Object.values(pieces).reduce((a,b) => a+b, 0): absent keys do not count
jsSum(pieces) == sumOver(pieces, Types)

\* a >= b on numbers, false when b is NaN
jsGe(a, b) == b # NaN /\ a >= b

-----------------------------------------------------------------------------
(* Catalogs *)

roster(ge, ca, ha, hi, li, ar) ==
    [t \in Types |->
        CASE t = "General" -> ge
          [] t = "Cavalry" -> ca
          [] t = "Horse Archer" -> ha
          [] t = "Heavy Infantry" -> hi
          [] t = "Light Infantry" -> li
          [] t = "Archer" -> ar]

NationKeys == {"english", "mongols", "macedonians", "spartans"}

nations(k) ==
    CASE k = "english" ->
            [pieces |-> roster(1, 2, undefined, 2, 2, 1),
             archerRangeBonus |-> 1, archerKillAmmoSave |-> TRUE]
      [] k = "mongols" ->
            [pieces |-> roster(1, 1, 2, 2, 2, 0),
             archerRangeBonus |-> 0, archerKillAmmoSave |-> FALSE]
      [] k = "macedonians" ->
            [pieces |-> roster(1, 2, undefined, 2, 2, 1),
             archerRangeBonus |-> 0, archerKillAmmoSave |-> FALSE]
      [] k = "spartans" ->
            [pieces |-> roster(1, 2, undefined, 2, 2, 0),
             archerRangeBonus |-> 0, archerKillAmmoSave |-> FALSE]

pieceTypes(t) ==
    CASE t = "General" -> [health |-> 3, ammo |-> 0]
      [] t = "Cavalry" -> [health |-> 2, ammo |-> 0]
      [] t = "Horse Archer" -> [health |-> 2, ammo |-> 2]
      [] t = "Heavy Infantry" -> [health |-> 3, ammo |-> 0]
      [] t = "Light Infantry" -> [health |-> 2, ammo |-> 0]
      [] t = "Archer" -> [health |-> 2, ammo |-> 3]

\* the fixed roster of part_000 and part_001
fixedRoster == roster(1, 2, undefined, 2, 2, 1)

-----------------------------------------------------------------------------
(* The board: the cells that hold a piece, each with its piece *)

emptyBoard == [x \in {} |-> null]
At(b, r, c) == IF <<r, c>> \in DOMAIN b THEN b[<<r, c>>] ELSE null
put(b, cell, p) == [x \in (DOMAIN b) \cup {cell} |-> IF x = cell THEN p ELSE b[x]]
\* a removal that leaves the cell as it is
keepCell(b, cell) == b
del(b, cell) == [x \in (DOMAIN b) \ {cell} |-> b[x]]

defaultSize == IF variant = "srv" THEN <<7, 7>> ELSE <<6, 7>>
width == boardSize[1]
height == boardSize[2]

\* gameState.board[row] is an array; reading board[row][col] throws when it is not
rowExists(row) == row >= 0 /\ row < height

-----------------------------------------------------------------------------
(* GameRoom *)

initializeGameState ==
    [currentPlayer |-> 1,
     gamePhase |-> "waiting",
     placementTurn |-> 1,
     piecesPlacedThisTurn |-> 0,
     hasMoved |-> FALSE,
     hasAttacked |-> FALSE,
     gameEnded |-> FALSE,
     winner |-> 0,
     board |-> emptyBoard,
     player1Nation |-> "null",
     player2Nation |-> "null",
     player1Pieces |-> IF variant = "srv" THEN roster(undefined, undefined, undefined,
                                                      undefined, undefined, undefined)
                       ELSE fixedRoster,
     player2Pieces |-> IF variant = "srv" THEN roster(undefined, undefined, undefined,
                                                      undefined, undefined, undefined)
                       ELSE fixedRoster,
     lineOfSightEnabled |-> FALSE,
     limitedRangeEnabled |-> FALSE,
     selectedCell |-> nullCell,
     selectedPieceType |-> "null"]

\* this.players.get(socketId): the index of the entry, 0 when there is none
indexOf(ps, id) ==
    IF \E i \in 1..Len(ps) : ps[i].id = id
    THEN CHOOSE i \in 1..Len(ps) : ps[i].id = id
    ELSE 0

\* this.players.set(id, rec): an existing key keeps its place in the order
mapSet(ps, id, rec) ==
    IF indexOf(ps, id) = 0 THEN Append(ps, rec)
    ELSE [ps EXCEPT ![indexOf(ps, id)] = rec]

\* this.players.delete(id)
mapDelete(ps, id) ==
    LET keep == {i \in 1..Len(ps) : ps[i].id # id}
        f[i \in 0..Len(ps)] ==
            IF i = 0 THEN <<>>
            ELSE IF i \in keep THEN Append(f[i - 1], ps[i]) ELSE f[i - 1]
    IN f[Len(ps)]

getPlayerBySocketId(ps, id) == ps[indexOf(ps, id)]

\* a turn check that lets every seat through
anyPlayerTurn(g, player) == TRUE

isPlayerTurn(g, player) == player.playerNumber = g.currentPlayer

phaseOnSecondSeat == IF variant = "srv" THEN "nation-selection" ELSE "placement"

\* noSize: a joinRoom that carries no boardSize
noSize == <<>>

\* an addPlayer that seats every joiner, however many seats are taken
addPlayerUncapped(ps, sp, g, id, requestedBoardSize) ==
    [players |-> mapSet(ps, id, [id |-> id, playerNumber |-> Len(ps) + 1,
                                 nation |-> "null"]),
     spectators |-> sp, g |-> g,
     out |-> <<"playerAssigned", "gameStateUpdate", "playerListUpdate">>]

addPlayer(ps, sp, g, id, requestedBoardSize) ==
    IF Len(ps) >= 2
    THEN [players |-> ps, spectators |-> sp \cup {id}, g |-> g,
          out |-> <<"joinedAsSpectator", "gameStateUpdate">>]
    ELSE IF variant = "p1" /\ Len(ps) = 1 /\ requestedBoardSize # noSize
            /\ requestedBoardSize # boardSize
    THEN [players |-> ps, spectators |-> sp, g |-> g, out |-> <<"error">>]
    ELSE LET playerNumber == Len(ps) + 1
             ps2 == mapSet(ps, id, [id |-> id, playerNumber |-> playerNumber,
                                    nation |-> "null"])
         IN IF Len(ps2) = 2
            THEN [players |-> ps2, spectators |-> sp,
                  g |-> [g EXCEPT !.gamePhase = phaseOnSecondSeat],
                  out |-> <<"playerAssigned", "gameMessage:ready", "gameStateUpdate",
                            "playerListUpdate">>]
            ELSE [players |-> ps2, spectators |-> sp, g |-> g,
                  out |-> <<"playerAssigned", "gameStateUpdate", "playerListUpdate">>]

\* a remaining seat that keeps its number and nation
notRenumbered(p) == p

\* the remaining seat after a seat left a match of two
renumbered(p) ==
    IF variant = "srv" THEN [p EXCEPT !.playerNumber = 1, !.nation = "null"]
    ELSE [p EXCEPT !.playerNumber = 1]

\* when the players Map becomes empty
roomIsEmpty(ps, sp) == Len(ps) = 0

removePlayer(ps, sp, g, id) ==
    IF indexOf(ps, id) # 0
    THEN LET ps2 == mapDelete(ps, id)
         IN IF roomIsEmpty(ps2, sp)
            THEN [players |-> ps2, spectators |-> sp, g |-> g, out |-> <<>>,
                  del |-> TRUE]
            ELSE IF Len(ps2) = 1
            THEN [players |-> <<renumbered(ps2[1])>>, spectators |-> sp,
                  g |-> initializeGameState,
                  out |-> IF variant = "srv"
                          THEN <<"gameMessage:left", "playerAssigned", "gameStateUpdate",
                                 "playerListUpdate">>
                          ELSE <<"playerAssigned", "gameMessage:left", "gameStateUpdate",
                                 "playerListUpdate">>,
                  del |-> FALSE]
            ELSE [players |-> ps2, spectators |-> sp,
                  g |-> IF variant = "srv" THEN initializeGameState ELSE g,
                  out |-> IF variant = "srv"
                          THEN <<"gameMessage:left", "gameStateUpdate", "playerListUpdate">>
                          ELSE <<"gameStateUpdate", "playerListUpdate">>,
                  del |-> FALSE]
    ELSE IF id \in sp
    THEN [players |-> ps, spectators |-> sp \ {id}, g |-> g, out |-> <<>>, del |-> FALSE]
    ELSE [players |-> ps, spectators |-> sp, g |-> g, out |-> <<>>, del |-> FALSE]

-----------------------------------------------------------------------------
(* Placement *)

playerPieces(g, playerNumber) ==
    IF playerNumber = 1 THEN g.player1Pieces ELSE g.player2Pieces

setPlayerPieces(g, playerNumber, pieces) ==
    IF playerNumber = 1 THEN [g EXCEPT !.player1Pieces = pieces]
    ELSE [g EXCEPT !.player2Pieces = pieces]

playerNation(g, playerNumber) ==
    IF playerNumber = 1 THEN g.player1Nation ELSE g.player2Nation

\* Math.ceil(height / 3)
ceilThird(h) == (h + 2) \div 3

getPlacementRows(playerNumber) ==
    IF playerNumber = 1 THEN [min |-> 0, max |-> ceilThird(height) - 1]
    ELSE [min |-> height - ceilThird(height), max |-> height - 1]

\* the deployment-zone test of handlePlacePiece
canPlaceInRow(playerNumber, row) ==
    CASE variant = "p0" -> IF playerNumber = 1 THEN row <= 2 ELSE row >= 4
      [] variant = "p1" -> row >= getPlacementRows(playerNumber).min
                           /\ row <= getPlacementRows(playerNumber).max
      [] variant = "srv" -> IF playerNumber = 1 THEN row \in {0, 1, 2}
                            ELSE row \in {4, 5, 6}

\* the per-turn cap handlePlacePiece compares piecesPlacedThisTurn with
placementCap(g, player) ==
    IF variant = "srv"
    THEN IF g.placementTurn = 1 THEN 4
         ELSE jsSum(playerPieces(g, player.playerNumber))
    ELSE 4

\* the quota handleEndTurn compares piecesPlacedThisTurn with
requiredPieces(g, player) ==
    IF variant = "srv"
    THEN IF g.placementTurn = 1 THEN 4
         ELSE jsSum(nations(playerNation(g, player.playerNumber)).pieces) - 4
    ELSE 4

\* pieces[type] === 0
exhausted(pieces, pieceType) == pieces[pieceType] = 0

\* pieceTypes[pieceType] is an object: the local catalog of part_000 and part_001 has
\* no 'Horse Archer', and reading .health of undefined throws before anything is set
catalogued(pieceType) == variant = "srv" \/ fixedRoster[pieceType] # undefined

createPieceData(pieceType, playerNumber, nation) ==
    [type |-> pieceType,
     player |-> playerNumber,
     health |-> pieceTypes(pieceType).health,
     maxHealth |-> pieceTypes(pieceType).health,
     hasBeenReplenished |-> FALSE,
     ammo |-> pieceTypes(pieceType).ammo,
     chargeDirection |-> nullDir,
     nation |-> IF variant = "srv" THEN nation ELSE "null"]

handleSelectPieceType(g, player, pieceType) ==
    IF g.gamePhase # "placement" \/ ~isPlayerTurn(g, player)
    THEN [g |-> g, out |-> <<>>]
    ELSE [g |-> [g EXCEPT !.selectedPieceType = pieceType],
          out |-> <<"gameStateUpdate">>]

handlePlacePiece(g, player, row, col, pieceType) ==
    LET type == IF variant = "srv" THEN g.selectedPieceType ELSE pieceType
        pieces == playerPieces(g, player.playerNumber)
    IN IF ~isPlayerTurn(g, player) \/ g.gamePhase # "placement"
       THEN [g |-> g, out |-> <<>>]
       ELSE IF variant = "srv" /\ g.selectedPieceType = "null"
       THEN [g |-> g, out |-> <<"gameMessage:selectTypeFirst">>]
       ELSE IF jsGe(g.piecesPlacedThisTurn, placementCap(g, player))
       THEN [g |-> g, out |-> <<"gameMessage:quotaReached">>]
       ELSE IF ~rowExists(row)
       THEN [g |-> g, out |-> <<"TypeError">>]
       ELSE IF At(g.board, row, col) # null
       THEN [g |-> g, out |-> <<"gameMessage:occupied">>]
       ELSE IF ~canPlaceInRow(player.playerNumber, row)
       THEN [g |-> g, out |-> <<"gameMessage:wrongZone">>]
       ELSE IF exhausted(pieces, type)
       THEN [g |-> g, out |-> <<"gameMessage:noneLeft">>]
       ELSE IF ~catalogued(type)
       THEN [g |-> g, out |-> <<"TypeError">>]
       ELSE [g |-> [setPlayerPieces(g, player.playerNumber,
                                    [pieces EXCEPT ![type] = jsDec(@)])
                    EXCEPT !.board = put(@, <<row, col>>,
                               createPieceData(type, player.playerNumber, player.nation)),
                           !.piecesPlacedThisTurn = @ + 1,
                           !.selectedPieceType = "null"],
             out |-> <<"gameStateUpdate">>]

\* a toggleOption that is applied in every phase
toggleInAnyPhase(g, option) ==
    CASE option = "lineOfSight" ->
            [g |-> [g EXCEPT !.lineOfSightEnabled = ~@],
             out |-> <<"gameMessage:lineOfSight", "gameStateUpdate">>]
      [] option = "limitedRange" ->
            [g |-> [g EXCEPT !.limitedRangeEnabled = ~@],
             out |-> <<"gameMessage:limitedRange", "gameStateUpdate">>]
      [] OTHER -> [g |-> g, out |-> <<"gameStateUpdate">>]

handleToggleOption(g, option) ==
    IF g.gamePhase # "placement" /\ g.gamePhase # "waiting"
    THEN [g |-> g, out |-> <<>>]
    ELSE CASE option = "lineOfSight" ->
                [g |-> [g EXCEPT !.lineOfSightEnabled = ~@],
                 out |-> <<"gameMessage:lineOfSight", "gameStateUpdate">>]
           [] option = "limitedRange" ->
                [g |-> [g EXCEPT !.limitedRangeEnabled = ~@],
                 out |-> <<"gameMessage:limitedRange", "gameStateUpdate">>]
           [] OTHER -> [g |-> g, out |-> <<"gameStateUpdate">>]

-----------------------------------------------------------------------------
(* Nation selection (src/server.js) *)

\* the loop of selectNation: another seat already holds the nation
nationTaken(ps, id, nationKey) ==
    \E i \in 1..Len(ps) : ps[i].nation = nationKey /\ ps[i].id # id

selectNation(ps, g, id, nationKey) ==
    IF indexOf(ps, id) = 0
    THEN [players |-> ps, g |-> g, out |-> <<"error">>, ok |-> FALSE]
    ELSE IF nationTaken(ps, id, nationKey)
    THEN [players |-> ps, g |-> g, out |-> <<"error">>, ok |-> FALSE]
    ELSE LET i == indexOf(ps, id)
             ps2 == [ps EXCEPT ![i].nation = nationKey]
             g2 == IF ps[i].playerNumber = 1
                   THEN [g EXCEPT !.player1Nation = nationKey,
                                  !.player1Pieces = nations(nationKey).pieces]
                   ELSE [g EXCEPT !.player2Nation = nationKey,
                                  !.player2Pieces = nations(nationKey).pieces]
             allSelected == \A j \in 1..Len(ps2) : ps2[j].nation # "null"
         IN IF allSelected
            THEN [players |-> ps2, g |-> [g2 EXCEPT !.gamePhase = "placement"],
                  out |-> <<"gameMessage:nationsSelected", "gameStateUpdate">>,
                  ok |-> TRUE]
            ELSE [players |-> ps2, g |-> g2, out |-> <<"gameStateUpdate">>, ok |-> TRUE]

-----------------------------------------------------------------------------
(* Battle rules *)

inBounds(row, col) == row >= 0 /\ row < height /\ col >= 0 /\ col < width

\* which pieces move two cells and record a charge direction
chargeCapable(piece) ==
    piece.type = "Cavalry"
    \/ (variant = "srv" /\ piece.type = "General" /\ piece.nation = "macedonians")

anyWithinTwo(fromRow, fromCol, toRow, toCol) ==
    Abs(fromRow - toRow) + Abs(fromCol - toCol) <= 2

straightUpToTwo(fromRow, fromCol, toRow, toCol) ==
    (Abs(fromRow - toRow) <= 2 /\ Abs(fromCol - toCol) = 0)
    \/ (Abs(fromRow - toRow) = 0 /\ Abs(fromCol - toCol) <= 2)

manhattan(fromRow, fromCol, toRow, toCol) == Abs(fromRow - toRow) + Abs(fromCol - toCol)

canMove(piece, fromRow, fromCol, toRow, toCol) ==
    CASE variant = "p0" ->
            IF piece.type = "Cavalry" THEN straightUpToTwo(fromRow, fromCol, toRow, toCol)
            ELSE manhattan(fromRow, fromCol, toRow, toCol) = 1
      [] variant = "p1" ->
            IF ~inBounds(toRow, toCol) THEN FALSE
            ELSE IF piece.type = "Cavalry"
            THEN straightUpToTwo(fromRow, fromCol, toRow, toCol)
            ELSE manhattan(fromRow, fromCol, toRow, toCol) = 1
      [] variant = "srv" ->
            IF ~inBounds(toRow, toCol) THEN FALSE
            ELSE IF piece.type = "General" /\ piece.nation = "macedonians"
            THEN straightUpToTwo(fromRow, fromCol, toRow, toCol)
            ELSE IF piece.type = "Cavalry" \/ piece.type = "Horse Archer"
            THEN straightUpToTwo(fromRow, fromCol, toRow, toCol)
            ELSE IF piece.type = "Heavy Infantry" /\ piece.nation = "spartans"
            THEN Abs(fromRow - toRow) <= 1 /\ Abs(fromCol - toCol) <= 1
                 /\ Abs(fromRow - toRow) + Abs(fromCol - toCol) > 0
            ELSE manhattan(fromRow, fromCol, toRow, toCol) = 1

\* the indices strictly between two columns (or two rows)
between(a, b) == ((IF a < b THEN a ELSE b) + 1)..((IF a < b THEN b ELSE a) - 1)

hasLineOfSight(fromRow, fromCol, toRow, toCol, board) ==
    IF fromRow = toRow
    THEN \A col \in between(fromCol, toCol) : At(board, fromRow, col) = null
    ELSE IF fromCol = toCol
    THEN \A row \in between(fromRow, toRow) : At(board, row, fromCol) = null
    ELSE TRUE

getArcherRange(piece) == 4 + nations(piece.nation).archerRangeBonus

canAttackAnyAmmo(piece, fromRow, fromCol, toRow, toCol, g) ==
    LET target == At(g.board, toRow, toCol)
        distance == manhattan(fromRow, fromCol, toRow, toCol)
        straight == fromRow = toRow \/ fromCol = toCol
    IN IF variant # "p0" /\ ~inBounds(toRow, toCol) THEN FALSE
       ELSE IF target = null \/ target.player = piece.player THEN FALSE
       ELSE IF variant = "srv"
       THEN IF distance = 1 THEN TRUE
            ELSE IF piece.type = "Archer" /\ straight /\ distance <= getArcherRange(piece)
            THEN TRUE
            ELSE IF piece.type = "Horse Archer" /\ piece.ammo > 0 /\ straight
                    /\ distance <= 4
            THEN TRUE
            ELSE FALSE
       ELSE IF piece.type = "Archer"
       THEN IF distance = 1 THEN TRUE
            ELSE IF straight
            THEN IF g.limitedRangeEnabled /\ distance > 4 THEN FALSE
                 ELSE IF g.lineOfSightEnabled
                         /\ ~hasLineOfSight(fromRow, fromCol, toRow, toCol, g.board)
                 THEN FALSE
                 ELSE TRUE
            ELSE FALSE
       ELSE distance = 1

canAttack(piece, fromRow, fromCol, toRow, toCol, g) ==
    LET target == At(g.board, toRow, toCol)
        distance == manhattan(fromRow, fromCol, toRow, toCol)
        straight == fromRow = toRow \/ fromCol = toCol
    IN IF variant # "p0" /\ ~inBounds(toRow, toCol) THEN FALSE
       ELSE IF target = null \/ target.player = piece.player THEN FALSE
       ELSE IF variant = "srv"
       THEN IF distance = 1 THEN TRUE
            ELSE IF piece.type = "Archer" /\ piece.ammo > 0 /\ straight
                    /\ distance <= getArcherRange(piece)
            THEN TRUE
            ELSE IF piece.type = "Horse Archer" /\ piece.ammo > 0 /\ straight
                    /\ distance <= 4
            THEN TRUE
            ELSE FALSE
       ELSE IF piece.type = "Archer"
       THEN IF distance = 1 THEN TRUE
            ELSE IF piece.ammo > 0 /\ straight
            THEN IF g.limitedRangeEnabled /\ distance > 4 THEN FALSE
                 ELSE IF g.lineOfSightEnabled
                         /\ ~hasLineOfSight(fromRow, fromCol, toRow, toCol, g.board)
                 THEN FALSE
                 ELSE TRUE
            ELSE FALSE
       ELSE distance = 1

getHealingRows == [player1 |-> height - 1, player2 |-> 0]

\* the row whose reaching heals a piece of the player
shouldHeal(piece, row) ==
    IF variant = "p1"
    THEN (piece.player = 1 /\ row = getHealingRows.player1)
         \/ (piece.player = 2 /\ row = getHealingRows.player2)
    ELSE (piece.player = 1 /\ row = 6) \/ (piece.player = 2 /\ row = 0)

\* a check that heals on every arrival
healEveryTime(piece, row) ==
    IF shouldHeal(piece, row) /\ (variant = "srv" => piece.type # "General")
    THEN [piece |-> [piece EXCEPT
                        !.health = piece.maxHealth,
                        !.hasBeenReplenished = TRUE,
                        !.ammo = IF piece.type = "Archer"
                                    \/ (variant = "srv" /\ piece.type = "Horse Archer")
                                 THEN pieceTypes(piece.type).ammo
                                 ELSE @],
          out |-> <<"gameMessage:replenished">>]
    ELSE [piece |-> piece, out |-> <<>>]

\* a healing that adds the starting ammo to what is left
healAddsArrows(piece, row) ==
    IF shouldHeal(piece, row) /\ ~piece.hasBeenReplenished
       /\ (variant = "srv" => piece.type # "General")
    THEN [piece |-> [piece EXCEPT
                        !.health = piece.maxHealth,
                        !.hasBeenReplenished = TRUE,
                        !.ammo = IF piece.type = "Archer"
                                    \/ (variant = "srv" /\ piece.type = "Horse Archer")
                                 THEN @ + pieceTypes(piece.type).ammo
                                 ELSE @],
          out |-> <<"gameMessage:replenished">>]
    ELSE [piece |-> piece, out |-> <<>>]

\* returns the piece as it is after the check, and the message it emits
checkForHealing(piece, row) ==
    IF shouldHeal(piece, row) /\ ~piece.hasBeenReplenished
       /\ (variant = "srv" => piece.type # "General")
    THEN [piece |-> [piece EXCEPT
                        !.health = piece.maxHealth,
                        !.hasBeenReplenished = TRUE,
                        !.ammo = IF piece.type = "Archer"
                                    \/ (variant = "srv" /\ piece.type = "Horse Archer")
                                 THEN pieceTypes(piece.type).ammo
                                 ELSE @],
          out |-> <<"gameMessage:replenished">>]
    ELSE [piece |-> piece, out |-> <<>>]

\* a charge direction that keeps the length of the move
rawDirection(fromRow, fromCol, toRow, toCol) ==
    IF manhattan(fromRow, fromCol, toRow, toCol) = 2
    THEN <<toRow - fromRow, toCol - fromCol>>
    ELSE nullDir

chargeDirectionOf(fromRow, fromCol, toRow, toCol) ==
    IF manhattan(fromRow, fromCol, toRow, toCol) = 2
    THEN <<Sign(toRow - fromRow), Sign(toCol - fromCol)>>
    ELSE nullDir

movePiece(g, fromRow, fromCol, toRow, toCol) ==
    LET piece == At(g.board, fromRow, fromCol)
        charged == IF chargeCapable(piece)
                   THEN [piece EXCEPT !.chargeDirection =
                            chargeDirectionOf(fromRow, fromCol, toRow, toCol)]
                   ELSE piece
        healed == checkForHealing(charged, toRow)
    IN [g |-> [g EXCEPT !.board = put(del(@, <<fromRow, fromCol>>), <<toRow, toCol>>,
                                      healed.piece)],
        out |-> healed.out]

\* a damage rule without the Heavy Infantry exception
damageHeavyToo(attacker, target, attackerRow, attackerCol, targetRow, targetCol) ==
    IF chargeCapable(attacker) /\ attacker.chargeDirection # nullDir
       /\ manhattan(attackerRow, attackerCol, targetRow, targetCol) = 1
       /\ <<targetRow - attackerRow, targetCol - attackerCol>> = attacker.chargeDirection
    THEN 2
    ELSE 1

\* the charge bonus of attackPiece
damageOf(attacker, target, attackerRow, attackerCol, targetRow, targetCol) ==
    IF chargeCapable(attacker) /\ attacker.chargeDirection # nullDir
       /\ manhattan(attackerRow, attackerCol, targetRow, targetCol) = 1
       /\ target.type # "Heavy Infantry"
       /\ <<targetRow - attackerRow, targetCol - attackerCol>> = attacker.chargeDirection
    THEN 2
    ELSE 1

\* an attack that spends ammo at every distance
consumeAtAnyDistance(attacker, target, distance) ==
    IF variant = "srv" THEN TRUE ELSE attacker.type = "Archer"

shouldConsumeAmmo(attacker, target, distance) ==
    IF variant = "srv"
    THEN IF attacker.type = "Archer" /\ attacker.nation = "english"
            /\ nations(attacker.nation).archerKillAmmoSave /\ target.health <= 1
         THEN FALSE
         ELSE distance > 1
    ELSE attacker.type = "Archer" /\ distance > 1

\* a cleave that leaves out the cell to the right
cleaveThreeWays == << <<-1, 0>>, <<1, 0>>, <<0, -1>> >>

cleaveDirections == << <<-1, 0>>, <<1, 0>>, <<0, -1>>, <<0, 1>> >>

\* what a cleave kill of a General sets
cleaveVictory(g, attacker) == [g EXCEPT !.gameEnded = TRUE, !.winner = attacker.player]

RECURSIVE cleaveFrom(_, _, _, _, _, _, _)
cleaveFrom(g, attackerRow, attackerCol, targetRow, targetCol, i, cleaveCount) ==
    IF i > Len(cleaveDirections)
    THEN [g |-> g, out |-> IF cleaveCount > 0 THEN <<"gameMessage:cleave">> ELSE <<>>]
    ELSE LET cleaveRow == attackerRow + cleaveDirections[i][1]
             cleaveCol == attackerCol + cleaveDirections[i][2]
             attacker == At(g.board, attackerRow, attackerCol)
             cleaveTarget == At(g.board, cleaveRow, cleaveCol)
         IN IF cleaveRow >= 0 /\ cleaveRow < 7 /\ cleaveCol >= 0 /\ cleaveCol < 7
               /\ cleaveTarget # null /\ cleaveTarget.player # attacker.player
               /\ ~(cleaveRow = targetRow /\ cleaveCol = targetCol)
            THEN IF cleaveTarget.health - 1 <= 0
                 THEN IF cleaveTarget.type = "General"
                      THEN [g |-> cleaveVictory(
                                     [g EXCEPT !.board = del(@, <<cleaveRow, cleaveCol>>)],
                                     attacker),
                            out |-> <<"gameMessage:cleaveVictory">>]
                      ELSE cleaveFrom([g EXCEPT !.board = del(@, <<cleaveRow, cleaveCol>>)],
                                      attackerRow, attackerCol, targetRow, targetCol,
                                      i + 1, cleaveCount + 1)
                 ELSE cleaveFrom([g EXCEPT !.board[<<cleaveRow, cleaveCol>>].health = @ - 1],
                                 attackerRow, attackerCol, targetRow, targetCol,
                                 i + 1, cleaveCount + 1)
            ELSE cleaveFrom(g, attackerRow, attackerCol, targetRow, targetCol,
                            i + 1, cleaveCount)

handleSpartanCleave(g, attackerRow, attackerCol, targetRow, targetCol) ==
    cleaveFrom(g, attackerRow, attackerCol, targetRow, targetCol, 1, 0)

\* an end of attackPiece that removes the target and never ends the match
resolveTargetPlayOn(g, attacker, wasGeneral, targetRow, targetCol) ==
    IF At(g.board, targetRow, targetCol).health <= 0
    THEN [g |-> [g EXCEPT !.board = del(@, <<targetRow, targetCol>>)], out |-> <<>>]
    ELSE [g |-> g, out |-> <<>>]

\* an end of attackPiece that leaves the target where it is
resolveTargetKeep(g, attacker, wasGeneral, targetRow, targetCol) == [g |-> g, out |-> <<>>]

\* the end of attackPiece: a target at health <= 0 leaves the board, a General ends the match
resolveTarget(g, attacker, wasGeneral, targetRow, targetCol) ==
    IF At(g.board, targetRow, targetCol).health <= 0
    THEN IF wasGeneral
         THEN [g |-> [g EXCEPT !.board = del(@, <<targetRow, targetCol>>),
                               !.gameEnded = TRUE,
                               !.winner = attacker.player],
               out |-> <<"gameMessage:victory">>]
         ELSE [g |-> [g EXCEPT !.board = del(@, <<targetRow, targetCol>>)], out |-> <<>>]
    ELSE [g |-> g, out |-> <<>>]

attackPiece(g, attackerRow, attackerCol, targetRow, targetCol) ==
    IF g.gameEnded THEN [g |-> g, out |-> <<>>]
    ELSE IF At(g.board, targetRow, targetCol) = null THEN [g |-> g, out |-> <<>>]
    ELSE LET attacker == At(g.board, attackerRow, attackerCol)
             target == At(g.board, targetRow, targetCol)
             distance == manhattan(attackerRow, attackerCol, targetRow, targetCol)
             damage == damageOf(attacker, target, attackerRow, attackerCol,
                                targetRow, targetCol)
             chargeOut == IF damage = 2 THEN <<"gameMessage:charge">> ELSE <<>>
             g1 == IF shouldConsumeAmmo(attacker, target, distance)
                   THEN [g EXCEPT !.board[<<attackerRow, attackerCol>>].ammo = @ - 1]
                   ELSE g
             g2 == [g1 EXCEPT !.board[<<targetRow, targetCol>>].health = @ - damage]
             cleaved == IF variant = "srv" /\ attacker.type = "Heavy Infantry"
                           /\ attacker.nation = "spartans"
                        THEN handleSpartanCleave(g2, attackerRow, attackerCol,
                                                 targetRow, targetCol)
                        ELSE [g |-> g2, out |-> <<>>]
             resolved == resolveTarget(cleaved.g, At(g1.board, attackerRow, attackerCol),
                                       target.type = "General", targetRow, targetCol)
         IN [g |-> resolved.g, out |-> chargeOut \o cleaved.out \o resolved.out]

\* a timing guard that lets every move through
mayMoveAlways(g) == TRUE

\* a timing guard that lets a seat move after it has attacked
mayMoveAfterAttack(g) == ~g.hasMoved

\* the timing guard of a move
mayMove(g) == IF variant = "p0" THEN ~g.hasMoved ELSE ~g.hasAttacked /\ ~g.hasMoved

\* the timing guard of an attack
mayAttack(g) == ~g.hasAttacked

\* an ordering policy that lets a seat attack before it has moved
attackAnyTime(g) == FALSE

\* You must MOVE first before attacking! (part_000)
mustMoveFirst(g) == variant = "p0" /\ ~g.hasMoved

handleSelectCell(g, player, row, col) ==
    IF g.gamePhase # "battle" \/ ~isPlayerTurn(g, player)
    THEN [g |-> g, out |-> <<>>]
    ELSE IF ~rowExists(row)
    THEN [g |-> g, out |-> <<"TypeError">>]
    ELSE IF g.selectedCell = nullCell
    THEN IF At(g.board, row, col) # null
            /\ At(g.board, row, col).player = player.playerNumber
         THEN [g |-> [g EXCEPT !.selectedCell = <<row, col>>],
               out |-> <<"gameStateUpdate">>]
         ELSE [g |-> g, out |-> <<>>]
    ELSE LET selRow == g.selectedCell[1]
             selCol == g.selectedCell[2]
             selectedPiece == At(g.board, selRow, selCol)
             targetPiece == At(g.board, row, col)
         IN IF selRow = row /\ selCol = col
            THEN [g |-> [g EXCEPT !.selectedCell = nullCell],
                  out |-> <<"gameStateUpdate">>]
            ELSE IF targetPiece = null /\ canMove(selectedPiece, selRow, selCol, row, col)
            THEN IF mayMove(g)
                 THEN LET m == movePiece(g, selRow, selCol, row, col)
                      IN [g |-> [m.g EXCEPT !.hasMoved = TRUE, !.selectedCell = nullCell],
                          out |-> m.out \o <<"gameMessage:moveCompleted", "gameStateUpdate">>]
                 ELSE [g |-> [g EXCEPT !.selectedCell = nullCell],
                       out |-> <<"gameMessage:moveTiming", "gameStateUpdate">>]
            ELSE IF targetPiece # null /\ targetPiece.player # selectedPiece.player
                    /\ canAttack(selectedPiece, selRow, selCol, row, col, g)
            THEN IF mustMoveFirst(g)
                 THEN [g |-> [g EXCEPT !.selectedCell = nullCell],
                       out |-> <<"gameMessage:moveFirst", "gameStateUpdate">>]
                 ELSE IF mayAttack(g)
                 THEN LET a == attackPiece(g, selRow, selCol, row, col)
                      IN [g |-> [a.g EXCEPT !.hasAttacked = TRUE, !.selectedCell = nullCell],
                          out |-> a.out \o (IF variant = "p0" THEN <<>>
                                            ELSE <<"gameMessage:attackCompleted">>)
                                  \o <<"gameStateUpdate">>]
                 ELSE [g |-> [g EXCEPT !.selectedCell = nullCell],
                       out |-> <<"gameMessage:attackOnce", "gameStateUpdate">>]
            ELSE [g |-> [g EXCEPT !.selectedCell = nullCell],
                  out |-> (IF variant = "srv" THEN <<>> ELSE <<"gameMessage:invalid">>)
                          \o <<"gameStateUpdate">>]

\* the loop of handleEndTurn over the rows and columns of the board
\* an endTurn that leaves the charge directions standing
keepCharges(board) == board

clearCharges(board) ==
    [x \in DOMAIN board |->
        IF x[1] >= 0 /\ x[1] < height /\ x[2] >= 0 /\ x[2] < width
           /\ chargeCapable(board[x])
        THEN [board[x] EXCEPT !.chargeDirection = nullDir]
        ELSE board[x]]

\* the phase transition at the end of handleEndTurn
nextTurn(g) ==
    IF g.gamePhase = "placement"
    THEN IF g.currentPlayer = 1
         THEN [g |-> [g EXCEPT !.piecesPlacedThisTurn = 0, !.currentPlayer = 2],
               out |-> <<"gameStateUpdate">>]
         ELSE IF g.placementTurn + 1 > 2
         THEN [g |-> [g EXCEPT !.piecesPlacedThisTurn = 0, !.currentPlayer = 1,
                               !.placementTurn = @ + 1, !.gamePhase = "battle"],
               out |-> <<"gameMessage:battleBegins", "gameStateUpdate">>]
         ELSE [g |-> [g EXCEPT !.piecesPlacedThisTurn = 0, !.currentPlayer = 1,
                               !.placementTurn = @ + 1],
               out |-> <<"gameStateUpdate">>]
    ELSE [g |-> [g EXCEPT !.currentPlayer = IF @ = 1 THEN 2 ELSE 1],
          out |-> <<"gameStateUpdate">>]

\* a validation that lets every endTurn through
quotaIgnored(g, player) == TRUE

\* the validation of handleEndTurn
quotaMet(g, player) ==
    g.gamePhase = "placement" => g.piecesPlacedThisTurn = requiredPieces(g, player)

\* an endTurn that keeps the selection
endTurnKeepsSelection(g, player) ==
    IF ~isPlayerTurn(g, player) THEN [g |-> g, out |-> <<>>]
    ELSE IF ~quotaMet(g, player)
    THEN [g |-> g, out |-> <<"gameMessage:quotaNotMet">>]
    ELSE nextTurn([g EXCEPT !.selectedPieceType = "null",
                            !.hasMoved = FALSE,
                            !.hasAttacked = FALSE,
                            !.board = clearCharges(@)])

handleEndTurn(g, player) ==
    IF ~isPlayerTurn(g, player) THEN [g |-> g, out |-> <<>>]
    ELSE IF ~quotaMet(g, player)
    THEN [g |-> g, out |-> <<"gameMessage:quotaNotMet">>]
    ELSE nextTurn([g EXCEPT !.selectedCell = nullCell,
                            !.selectedPieceType = "null",
                            !.hasMoved = FALSE,
                            !.hasAttacked = FALSE,
                            !.board = clearCharges(@)])

-----------------------------------------------------------------------------
(* The environment: the sockets that connect and the intents their clients send.
   Each scenario is a small set of inputs; the variant and the scenario are
   chosen in Init and never change. *)

Variants == {"p0", "p1", "srv"}

Scenarios(v) ==
    IF v = "srv" THEN {"lobby", "nations", "cleave", "rejoin", "heal"}
    ELSE {"lobby", "duel", "heal"}

Sockets == {1, 2, 3}

\* the sockets that connect
ConnsOf(s) == IF s = "lobby" THEN {1, 2, 3} ELSE {1, 2}

\* whether a client re-sends joinRoom for the room it is in
Rejoins(s) == s \in {"lobby", "rejoin"}

\* whether a client sends joinRoom for another room while it is in this one
Roams(v, s) == (v = "srv" /\ s = "rejoin") \/ (v = "p0" /\ s = "lobby")

\* the boardSize a joinRoom carries (part_001 only reads it)
ReqSizes(v, s) == IF v = "p1" /\ s = "lobby" THEN {noSize, <<8, 8>>} ELSE {noSize}

\* whether the nation picker is used during nation-selection only
HonestPicker(s) == s \notin {"nations", "rejoin"}

\* the nation keys a seat's client sends
NationInputs(s, seat) ==
    CASE s = "cleave" -> IF seat = 1 THEN {"spartans"} ELSE {"macedonians"}
      [] s = "nations" -> IF seat = 1 THEN {"english"} ELSE {"mongols"}
      [] s = "rejoin" -> {"english"}
      [] OTHER -> IF seat = 1 THEN {"english"} ELSE {"spartans"}

\* the placements <<row, col, pieceType>> a seat's client sends in a placement round
PlaceInputs(s, seat, round) ==
    CASE s = "lobby" ->
            IF seat = 1 THEN {<<0, 0, "General">>} ELSE {<<6, 0, "General">>}
      [] s = "rejoin" -> {}
      [] s = "heal" ->
            IF seat = 1
            THEN IF round = 1
                 THEN {<<2, 0, "Cavalry">>, <<0, 1, "General">>, <<0, 2, "Heavy Infantry">>,
                       <<0, 3, "Light Infantry">>}
                 ELSE {<<1, 2, "Cavalry">>, <<1, 2, "Horse Archer">>,
                       <<1, 3, "Heavy Infantry">>, <<1, 4, "Archer">>,
                       <<1, 5, "Light Infantry">>}
            ELSE IF round = 1
                 THEN {<<5, 0, "Light Infantry">>, <<5, 1, "General">>,
                       <<6, 2, "Heavy Infantry">>, <<6, 3, "Cavalry">>}
                 ELSE {<<5, 2, "Cavalry">>, <<5, 2, "Horse Archer">>,
                       <<5, 3, "Heavy Infantry">>, <<5, 4, "Light Infantry">>,
                       <<5, 5, "Archer">>}
      [] s = "duel" ->
            IF seat = 1
            THEN IF round = 1
                 THEN {<<0, 0, "General">>, <<1, 1, "Cavalry">>, <<2, 1, "Archer">>,
                       <<2, 0, "Light Infantry">>, <<3, 0, "Light Infantry">>}
                 ELSE {<<0, 2, "Cavalry">>, <<0, 3, "Heavy Infantry">>,
                       <<0, 4, "Heavy Infantry">>, <<0, 5, "Light Infantry">>,
                       <<0, 1, "General">>}
            ELSE IF round = 1
                 THEN {<<4, 1, "General">>, <<6, 0, "Cavalry">>, <<6, 2, "Cavalry">>,
                       <<6, 3, "Heavy Infantry">>, <<3, 0, "Light Infantry">>}
                 ELSE {<<6, 4, "Heavy Infantry">>, <<6, 5, "Light Infantry">>,
                       <<5, 5, "Light Infantry">>, <<5, 4, "Archer">>,
                       <<5, 0, "General">>}
      [] s = "nations" ->
            IF seat = 1
            THEN CASE round = 1 -> {<<0, 0, "General">>, <<0, 1, "Cavalry">>,
                                    <<0, 2, "Heavy Infantry">>, <<0, 3, "Light Infantry">>}
                   [] round = 2 -> {<<1, 0, "Horse Archer">>, <<1, 0, "Archer">>,
                                    <<1, 1, "Cavalry">>, <<1, 2, "Heavy Infantry">>,
                                    <<1, 3, "Light Infantry">>}
                   [] OTHER -> {<<2, 0, "General">>}
            ELSE CASE round = 1 -> {<<6, 0, "General">>, <<6, 1, "Cavalry">>,
                                    <<6, 2, "Heavy Infantry">>, <<6, 3, "Light Infantry">>}
                   [] round = 2 -> {<<5, 0, "Horse Archer">>, <<5, 1, "Horse Archer">>,
                                    <<5, 2, "Heavy Infantry">>, <<5, 3, "Light Infantry">>}
                   [] OTHER -> {<<4, 0, "General">>}
      [] s = "cleave" ->
            IF seat = 1
            THEN IF round = 1
                 THEN {<<0, 0, "General">>, <<1, 0, "Cavalry">>, <<2, 1, "Heavy Infantry">>,
                       <<0, 6, "Horse Archer">>}
                 ELSE {<<0, 2, "Cavalry">>, <<0, 3, "Heavy Infantry">>,
                       <<0, 4, "Light Infantry">>}
            ELSE IF round = 1
                 THEN {<<4, 0, "General">>, <<4, 2, "Heavy Infantry">>,
                       <<4, 6, "Horse Archer">>, <<6, 0, "Light Infantry">>}
                 ELSE {<<6, 1, "Cavalry">>, <<6, 2, "Cavalry">>,
                       <<6, 3, "Light Infantry">>, <<6, 4, "Archer">>}

\* the cells a seat's client clicks during the battle
SelectCells(s, seat) ==
    CASE s = "duel" ->
            IF seat = 1 THEN {<<1, 1>>, <<2, 1>>, <<3, 1>>, <<4, 1>>, <<2, 0>>, <<3, 0>>}
            ELSE {<<4, 1>>, <<3, 1>>}
      [] s = "cleave" ->
            IF seat = 1
            THEN {<<1, 0>>, <<3, 0>>, <<4, 0>>, <<2, 1>>, <<3, 1>>, <<4, 1>>, <<4, 2>>}
            ELSE {<<4, 0>>, <<2, 0>>, <<1, 0>>}
      [] s = "heal" ->
            IF seat = 1
            THEN {<<2, 0>>, <<4, 0>>, <<6, 0>>}
                 \cup (IF variant = "srv" THEN {<<1, 4>>, <<5, 4>>} ELSE {})
            ELSE {<<5, 0>>, <<4, 0>>, <<6, 0>>}
                 \cup (IF variant = "p0" THEN {<<5, 1>>, <<4, 1>>} ELSE {})
      [] OTHER -> {}

\* the options a client toggles (part_000 and part_001)
Options(s) == IF s = "lobby" THEN {"limitedRange"} ELSE {"lineOfSight"}

\* the battle turns explored in a scenario
TurnCap(s) ==
    CASE s = "cleave" -> MaxTurns - 1
      [] s = "heal" -> IF variant = "p1" THEN MaxTurns + 3 ELSE MaxTurns - 1
      [] s = "nations" -> MaxTurns - 1
      [] s = "duel" -> MaxTurns - 1
      [] OTHER -> MaxTurns

\* the accepted selectNation intents explored in a scenario
SelectCap(s) == IF s = "nations" THEN MaxSelects - 1 ELSE MaxSelects

Seats == {1, 2}

\* the seat number of a socket, 0 when it holds none
seatOf(ps, id) == IF indexOf(ps, id) = 0 THEN 0 ELSE ps[indexOf(ps, id)].playerNumber

\* the seats whose inputs a socket may send: its own seat's, any seat's when it has none
SeatsFor(id) == IF seatOf(players, id) = 0 THEN Seats ELSE {seatOf(players, id)}

-----------------------------------------------------------------------------
(* The socket handlers *)

\* gameAction finds the room and the sender's seat
routed(id) == socketRooms[id] = "in" /\ gameRooms /\ indexOf(players, id) # 0

Init ==
    /\ variant \in Variants
    /\ scn \in Scenarios(variant)
    /\ gameRooms = FALSE
    /\ players = <<>>
    /\ spectators = {}
    /\ gameState = initializeGameState
    /\ boardSize = defaultSize
    /\ socketRooms = [id \in Sockets |-> IF id \in ConnsOf(scn) THEN "new" ELSE "gone"]
    /\ turns = 0
    /\ selects = 0

\* socket.on('joinRoom')
JoinRoom(id, requestedBoardSize) ==
    /\ socketRooms[id] # "gone"
    /\ socketRooms[id] = "in" => Rejoins(scn)
    /\ LET ps == IF gameRooms THEN players ELSE <<>>
           sp == IF gameRooms THEN spectators ELSE {}
           g == IF gameRooms THEN gameState ELSE initializeGameState
           r == addPlayer(ps, sp, g, id, requestedBoardSize)
       IN /\ players' = r.players
          /\ spectators' = r.spectators
          /\ gameState' = r.g
    /\ boardSize' = IF gameRooms THEN boardSize
                    ELSE IF variant = "p1" /\ requestedBoardSize # noSize
                    THEN requestedBoardSize
                    ELSE defaultSize
    /\ gameRooms' = TRUE
    /\ socketRooms' = [socketRooms EXCEPT ![id] = "in"]
    /\ UNCHANGED <<variant, scn, turns, selects>>

\* socket.on('joinRoom') for the id of another room: the socket leaves this room's
\* channel and joins the other; this room's GameRoom is not touched
JoinOtherRoom(id) ==
    /\ Roams(variant, scn)
    /\ socketRooms[id] = "in"
    /\ socketRooms' = [socketRooms EXCEPT ![id] = "away"]
    /\ UNCHANGED <<variant, scn, gameRooms, players, spectators, gameState, boardSize,
                   turns, selects>>

\* socket.on('disconnect')
Disconnect(id) ==
    /\ socketRooms[id] # "gone"
    /\ socketRooms' = [socketRooms EXCEPT ![id] = "gone"]
    /\ IF gameRooms
       THEN LET r == removePlayer(players, spectators, gameState, id)
            IN IF r.del
               THEN /\ gameRooms' = FALSE
                    /\ players' = <<>>
                    /\ spectators' = {}
                    /\ gameState' = initializeGameState
                    /\ boardSize' = defaultSize
               ELSE /\ gameRooms' = gameRooms
                    /\ players' = r.players
                    /\ spectators' = r.spectators
                    /\ gameState' = r.g
                    /\ boardSize' = boardSize
       ELSE UNCHANGED <<gameRooms, players, spectators, gameState, boardSize>>
    /\ UNCHANGED <<variant, scn, turns, selects>>

\* socket.on('selectNation') (src/server.js)
SelectNation(id, nationKey) ==
    /\ variant = "srv"
    /\ socketRooms[id] # "gone"
    /\ selects < SelectCap(scn)
    /\ HonestPicker(scn) => gameState.gamePhase = "nation-selection"
    /\ IF socketRooms[id] = "in" /\ gameRooms
       THEN LET r == selectNation(players, gameState, id, nationKey)
            IN /\ players' = r.players
               /\ gameState' = r.g
               /\ selects' = IF r.ok THEN selects + 1 ELSE selects
       ELSE UNCHANGED <<players, gameState, selects>>
    /\ UNCHANGED <<variant, scn, gameRooms, spectators, boardSize, socketRooms, turns>>

\* a gameAction whose handler returns the record r
Apply(id, r) ==
    /\ gameState' = r.g
    /\ UNCHANGED <<variant, scn, gameRooms, players, spectators, boardSize, socketRooms,
                   selects>>

\* a gameAction of a socket that is in no room, or holds no seat
Dropped == UNCHANGED vars

\* gameAction {type: 'placePiece'}
PlacePiece(id, row, col, pieceType) ==
    /\ socketRooms[id] # "gone"
    /\ IF routed(id)
       THEN /\ Apply(id, handlePlacePiece(gameState, getPlayerBySocketId(players, id),
                                          row, col, pieceType))
            /\ UNCHANGED turns
       ELSE Dropped

\* gameAction {type: 'selectPieceType'} (src/server.js)
SelectPieceType(id, pieceType) ==
    /\ variant = "srv"
    /\ socketRooms[id] # "gone"
    /\ IF routed(id)
       THEN /\ Apply(id, handleSelectPieceType(gameState, getPlayerBySocketId(players, id),
                                               pieceType))
            /\ UNCHANGED turns
       ELSE Dropped

\* gameAction {type: 'selectCell'}
SelectCell(id, row, col) ==
    /\ socketRooms[id] # "gone"
    /\ IF routed(id)
       THEN /\ Apply(id, handleSelectCell(gameState, getPlayerBySocketId(players, id),
                                          row, col))
            /\ UNCHANGED turns
       ELSE Dropped

\* gameAction {type: 'endTurn'}
EndTurn(id) ==
    /\ socketRooms[id] # "gone"
    /\ gameState.gamePhase = "battle" => turns < TurnCap(scn)
    /\ IF routed(id)
       THEN LET r == handleEndTurn(gameState, getPlayerBySocketId(players, id))
            IN /\ Apply(id, r)
               /\ turns' = IF gameState.gamePhase = "battle" /\ r.out # <<>>
                           THEN turns + 1 ELSE turns
       ELSE Dropped

\* gameAction {type: 'toggleOption'} (part_000, part_001)
ToggleOption(id, option) ==
    /\ variant # "srv"
    /\ socketRooms[id] # "gone"
    /\ IF routed(id)
       THEN /\ Apply(id, handleToggleOption(gameState, option))
            /\ UNCHANGED turns
       ELSE Dropped

\* whether a scenario's clients fill the columns of a row from the left
Scripted(s) == s \in {"nations", "heal"}

\* the column the first placement of a round goes to
firstColumn(s, round) == IF s = "heal" /\ round = 2 THEN 2 ELSE 0

\* the placements a socket's client sends in the current state
placementsOf(id) ==
    {inp \in UNION {PlaceInputs(scn, seat, gameState.placementTurn) : seat \in SeatsFor(id)} :
        Scripted(scn) => inp[2] = gameState.piecesPlacedThisTurn
                                    + firstColumn(scn, gameState.placementTurn)}

\* src/server.js: the cell goes with the selected piece type
cellFits(inp) ==
    variant = "srv" /\ gameState.selectedPieceType # "null"
        => inp[3] = gameState.selectedPieceType

Next ==
    \/ \E id \in Sockets, size \in ReqSizes(variant, scn) : JoinRoom(id, size)
    \/ \E id \in Sockets : JoinOtherRoom(id)
    \/ \E id \in Sockets : Disconnect(id)
    \/ \E id \in Sockets : \E seat \in SeatsFor(id) :
          \E nationKey \in NationInputs(scn, seat) : SelectNation(id, nationKey)
    \/ \E id \in Sockets : \E inp \in placementsOf(id) :
          cellFits(inp) /\ PlacePiece(id, inp[1], inp[2], inp[3])
    \/ \E id \in Sockets : \E inp \in placementsOf(id) : SelectPieceType(id, inp[3])
    \/ \E id \in Sockets : \E seat \in SeatsFor(id) :
          \E cell \in SelectCells(scn, seat) : SelectCell(id, cell[1], cell[2])
    \/ \E id \in Sockets : EndTurn(id)
    \/ \E id \in Sockets : \E option \in Options(scn) : ToggleOption(id, option)

Spec == Init /\ [][Next]_vars

-----------------------------------------------------------------------------
(* Properties.  A property about what a handler does with an intent is stated
   in every reachable state for every intent of the named sets, by evaluating
   the handler there. *)

\* the seats of the room
Seated == {players[i] : i \in 1..Len(players)}

\* the cells an intent is tried with: with nothing selected every occupied cell; with
\* a selection the occupied cells of its row and of its column and the cells up to two
\* steps from it (on the board or off it); three fixed cells in both cases
Probes(g) ==
    (IF g.selectedCell = nullCell THEN DOMAIN g.board
     ELSE {x \in DOMAIN g.board : x[1] = g.selectedCell[1] \/ x[2] = g.selectedCell[2]}
          \cup {<<g.selectedCell[1] + d[1], g.selectedCell[2] + d[2]>> :
                   d \in {e \in (-2..2) \X (-2..2) : Abs(e[1]) + Abs(e[2]) <= 2}})
    \cup {<<0, 0>>, <<3, 3>>, <<6, 6>>}

\* the cells that hold a General of a seat
Generals(board, seat) ==
    {cell \in DOMAIN board : board[cell].type = "General" /\ board[cell].player = seat}

\* C1: whenever a selectCell intent is an accepted attack that brings a General's
\* health to 0 or below (directly, by a charge, or by a cleave), the state the
\* handler returns has no piece at health <= 0 left on the board (the General is
\* gone), has gameEnded true, and has winner equal to the owner of the attacking
\* piece, the piece at the selected cell.
C1_GeneralKillEndsMatch ==
    gameRooms /\ gameState.gamePhase = "battle" /\ gameState.selectedCell # nullCell =>
        \A p \in Seated : \A cell \in DOMAIN gameState.board :
            LET r == handleSelectCell(gameState, p, cell[1], cell[2])
                attacker == At(gameState.board, gameState.selectedCell[1],
                               gameState.selectedCell[2])
            IN /\ \A c \in DOMAIN r.g.board : r.g.board[c].health > 0
               /\ \A seat \in Seats :
                     Cardinality(Generals(r.g.board, seat))
                         < Cardinality(Generals(gameState.board, seat))
                     => /\ r.g.gameEnded
                        /\ r.g.winner = attacker.player
                        /\ attacker.player # seat

\* C1 witness: in this turn's attack the active seat killed the other seat's General
\* and won
C1_GeneralKilled ==
    /\ gameState.gamePhase = "battle"
    /\ gameState.hasAttacked
    /\ gameState.gameEnded
    /\ gameState.winner = gameState.currentPlayer
    /\ Generals(gameState.board, gameState.winner) # {}
    /\ Generals(gameState.board, 3 - gameState.winner) = {}

\* what C2 says stays as it was when the match ended
Frozen(g) ==
    /\ g.board = gameState.board
    /\ g.currentPlayer = gameState.currentPlayer
    /\ g.hasMoved = gameState.hasMoved
    /\ g.hasAttacked = gameState.hasAttacked

\* C2: once gameEnded is true, every gameAction intent (selectCell, endTurn,
\* placePiece, toggleOption) of every seat leaves the board with every piece's
\* fields, currentPlayer, hasMoved and hasAttacked as they are.
C2_EndedMatchFrozen ==
    gameRooms /\ gameState.gameEnded =>
        \A p \in Seated :
            /\ Frozen(handleEndTurn(gameState, p).g)
            /\ \A cell \in Probes(gameState) :
                  /\ Frozen(handleSelectCell(gameState, p, cell[1], cell[2]).g)
                  /\ \A t \in Types :
                        Frozen(handlePlacePiece(gameState, p, cell[1], cell[2], t).g)
            /\ variant # "srv" =>
                  \A option \in {"lineOfSight", "limitedRange"} :
                      Frozen(handleToggleOption(gameState, option).g)

\* the quota C3 names: 4, and in src/server.js after round 1 the nation's roster total - 4
statedQuota(g, seat) ==
    IF variant = "srv" /\ g.placementTurn # 1
    THEN jsSum(nations(playerNation(g, seat)).pieces) - 4
    ELSE 4

\* C3: in the placement phase an endTurn of the active seat is rejected exactly when
\* piecesPlacedThisTurn differs from the quota; a rejected endTurn leaves gamePhase,
\* currentPlayer, placementTurn and piecesPlacedThisTurn as they are (and only emits
\* the error message), an accepted one passes the turn and sets piecesPlacedThisTurn
\* to 0.
C3_EndTurnQuota ==
    gameRooms /\ gameState.gamePhase = "placement" =>
        \A p \in Seated :
            p.playerNumber = gameState.currentPlayer =>
                LET r == handleEndTurn(gameState, p)
                IN IF gameState.piecesPlacedThisTurn # statedQuota(gameState, p.playerNumber)
                   THEN /\ r.out = <<"gameMessage:quotaNotMet">>
                        /\ r.g.gamePhase = gameState.gamePhase
                        /\ r.g.currentPlayer = gameState.currentPlayer
                        /\ r.g.placementTurn = gameState.placementTurn
                        /\ r.g.piecesPlacedThisTurn = gameState.piecesPlacedThisTurn
                   ELSE /\ Len(r.out) > 0 /\ r.out[Len(r.out)] = "gameStateUpdate"
                        /\ r.g.currentPlayer # gameState.currentPlayer
                        /\ r.g.piecesPlacedThisTurn = 0

\* C3 witness: a placement endTurn was just accepted after exactly four placements,
\* and the turn passed to seat 2
C3_EndTurnAccepted ==
    /\ gameState.gamePhase = "placement"
    /\ gameState.currentPlayer = 2
    /\ gameState.placementTurn = 1
    /\ gameState.piecesPlacedThisTurn = 0
    /\ Cardinality(DOMAIN gameState.board) = 4

\* the premise of C4: two seats, and in src/server.js both with a nation
bothSeatsReady(ps) ==
    /\ Len(ps) = 2
    /\ variant = "srv" => ps[1].nation # "null" /\ ps[2].nation # "null"

\* C4: with both seats ready, placement starts with seat 1 in round 1; the accepted
\* endTurns of the placement phase pass the turn 1 -> 2 (same round) and 2 -> 1
\* (round 1 to round 2) only; and gamePhase goes from placement to battle only by the
\* endTurn of seat 2 in round 2, leaving currentPlayer = 1.
C4_PlacementOrder ==
    [][bothSeatsReady(players') =>
       /\ gameState.gamePhase # "placement" /\ gameState'.gamePhase = "placement"
            => gameState'.currentPlayer = 1 /\ gameState'.placementTurn = 1
       /\ gameState.gamePhase = "placement" /\ gameState'.gamePhase = "battle"
            => /\ gameState.currentPlayer = 2
               /\ gameState.placementTurn = 2
               /\ gameState'.currentPlayer = 1
       /\ gameState.gamePhase = "placement" /\ gameState'.gamePhase = "placement"
            => \/ /\ gameState'.currentPlayer = gameState.currentPlayer
                  /\ gameState'.placementTurn = gameState.placementTurn
               \/ /\ gameState.currentPlayer = 1
                  /\ gameState'.currentPlayer = 2
                  /\ gameState'.placementTurn = gameState.placementTurn
               \/ /\ gameState.currentPlayer = 2
                  /\ gameState.placementTurn = 1
                  /\ gameState'.currentPlayer = 1
                  /\ gameState'.placementTurn = 2]_vars

\* whether a piece stands in b2 on a cell that is empty in b1
Arrived(b1, b2) == \E cell \in DOMAIN b2 : cell \notin DOMAIN b1

\* whether a piece of b1 is gone from its cell in b2 or has less health there
Harmed(b1, b2) ==
    \E cell \in DOMAIN b1 : cell \notin DOMAIN b2 \/ b2[cell].health < b1[cell].health

\* C5: in the battle phase a selectCell intent that moves a piece sets hasMoved and one
\* that harms a piece sets hasAttacked; once hasMoved is true no selectCell intent
\* moves a piece, and once hasAttacked is true no selectCell intent changes the board
\* at all (endTurn alone clears the two flags).
C5_OneMoveOneAttack ==
    gameRooms /\ gameState.gamePhase = "battle" =>
        \A p \in Seated : \A cell \in Probes(gameState) :
            LET r == handleSelectCell(gameState, p, cell[1], cell[2])
            IN /\ Arrived(gameState.board, r.g.board) => r.g.hasMoved
               /\ Harmed(gameState.board, r.g.board) /\ ~Arrived(gameState.board, r.g.board)
                     => r.g.hasAttacked
               /\ gameState.hasMoved => /\ ~Arrived(gameState.board, r.g.board)
                                        /\ r.g.hasMoved
               /\ gameState.hasAttacked => /\ r.g.board = gameState.board
                                           /\ r.g.hasAttacked

\* C5 witness: a turn that has had its move and its attack, with a piece selected
\* that the rules of movement would let step to an empty cell
C5_SecondMoveTried ==
    /\ gameRooms
    /\ gameState.gamePhase = "battle"
    /\ gameState.hasMoved
    /\ gameState.hasAttacked
    /\ gameState.selectedCell # nullCell
    /\ \E cell \in Probes(gameState) :
          /\ At(gameState.board, cell[1], cell[2]) = null
          /\ canMove(At(gameState.board, gameState.selectedCell[1],
                        gameState.selectedCell[2]),
                     gameState.selectedCell[1], gameState.selectedCell[2],
                     cell[1], cell[2])

\* C6: currentPlayer is 1 or 2, and a placePiece, selectCell, endTurn or
\* selectPieceType intent of a seat whose number is not currentPlayer returns the
\* GameState as it is and emits nothing.
C6_OnlyActiveSeat ==
    /\ gameState.currentPlayer \in {1, 2}
    /\ gameRooms =>
          \A p \in Seated :
              p.playerNumber # gameState.currentPlayer =>
                  LET ignored == [g |-> gameState, out |-> <<>>]
                  IN /\ handleEndTurn(gameState, p) = ignored
                     /\ \A cell \in Probes(gameState) :
                           /\ handleSelectCell(gameState, p, cell[1], cell[2]) = ignored
                           /\ \A t \in Types :
                                 handlePlacePiece(gameState, p, cell[1], cell[2], t)
                                     = ignored
                     /\ variant = "srv" =>
                           \A t \in Types : handleSelectPieceType(gameState, p, t) = ignored

\* C6 witness: a battle in which the seat that is not active has a piece of its own
\* to click and the active seat has not moved yet
C6_IdleSeatHasPieces ==
    /\ gameRooms
    /\ Len(players) = 2
    /\ players[1].playerNumber # players[2].playerNumber
    /\ gameState.gamePhase = "battle"
    /\ ~gameState.hasMoved
    /\ \E cell \in DOMAIN gameState.board :
          gameState.board[cell].player # gameState.currentPlayer

\* the count of a type in a seat's starting roster (a type missing from it counts 0)
startingCount(g, seat, t) ==
    LET pieces == IF variant = "srv"
                  THEN IF playerNation(g, seat) = "null"
                       THEN roster(0, 0, 0, 0, 0, 0)
                       ELSE nations(playerNation(g, seat)).pieces
                  ELSE fixedRoster
    IN IF pieces[t] = undefined THEN 0 ELSE pieces[t]

\* C7: for each seat and piece type, the pieces of that type the seat has on the
\* board (all of them placed since the last reset) are at most the count of the type
\* in the seat's starting roster.
C7_PlacedWithinRoster ==
    gameRooms =>
        \A seat \in Seats : \A t \in Types :
            Cardinality({cell \in DOMAIN gameState.board :
                            /\ gameState.board[cell].player = seat
                            /\ gameState.board[cell].type = t})
                <= startingCount(gameState, seat, t)

\* the rosters of the initial GameState: the fixed roster, in src/server.js no pieces
\* until a nation is chosen
initialPieces ==
    IF variant = "srv"
    THEN roster(undefined, undefined, undefined, undefined, undefined, undefined)
    ELSE roster(1, 2, undefined, 2, 2, 1)

\* C8: when a seat leaves a room of two seats, the room stays, the remaining seat has
\* number 1 (and no nation in src/server.js), and the GameState is the initial one.
C8_LeaveResets ==
    gameRooms /\ Len(players) = 2 =>
        \A i \in 1..2 :
            LET r == removePlayer(players, spectators, gameState, players[i].id)
            IN /\ ~r.del
               /\ Len(r.players) = 1
               /\ r.players[1].id = players[3 - i].id
               /\ r.players[1].playerNumber = 1
               /\ variant = "srv" => r.players[1].nation = "null"
               /\ r.g.gamePhase = "waiting"
               /\ r.g.currentPlayer = 1
               /\ r.g.placementTurn = 1
               /\ r.g.piecesPlacedThisTurn = 0
               /\ ~r.g.hasMoved /\ ~r.g.hasAttacked
               /\ ~r.g.gameEnded /\ r.g.winner = 0
               /\ r.g.board = emptyBoard
               /\ r.g.player1Pieces = initialPieces /\ r.g.player2Pieces = initialPieces
               /\ r.g.player1Nation = "null" /\ r.g.player2Nation = "null"
               /\ r.g.selectedCell = nullCell /\ r.g.selectedPieceType = "null"
               /\ ~r.g.lineOfSightEnabled /\ ~r.g.limitedRangeEnabled

\* C8 witness: a room of two seats in mid-battle, seat 2 to play, with pieces on the
\* board and a piece selected: the state a leaving seat resets
C8_TwoSeatsMidBattle ==
    /\ gameRooms
    /\ Len(players) = 2
    /\ gameState.gamePhase = "battle"
    /\ gameState.currentPlayer = 2
    /\ gameState.placementTurn = 3
    /\ DOMAIN gameState.board # {}
    /\ variant = "srv" => players[1].nation # "null" /\ players[2].nation # "null"

\* C9: a single occupied seat has number 1 and two occupied seats have numbers 1 and 2.
C9_SeatNumbers ==
    gameRooms =>
        /\ Len(players) = 1 => players[1].playerNumber = 1
        /\ Len(players) = 2 => {players[1].playerNumber, players[2].playerNumber} = {1, 2}

\* C10: a departure removes the room only when no seat and no connected spectator
\* remains after it.
C10_RemovedOnlyWhenEmpty ==
    gameRooms =>
        \A id \in Sockets :
            socketRooms[id] = "in" =>
                LET r == removePlayer(players, spectators, gameState, id)
                    staying == {x \in r.spectators \ {id} : socketRooms[x] = "in"}
                IN r.del <=> Len(r.players) = 0 /\ staying = {}

\* the boardSize values a joinRoom is tried with: none, the default, a larger board
TriedSizes == {noSize, <<6, 7>>, <<8, 8>>}

\* the connections that are spectators and hold no seat
OnlySpectators == {id \in spectators : indexOf(players, id) = 0}

\* C11: while the room has two seats, a joinRoom of any connection adds it to the
\* spectators and leaves the seats and the GameState as they are; a connection that
\* is only a spectator is never routed to a gameAction handler, and its selectNation
\* changes neither the seats nor the GameState.
C11_SpectatorsStayOut ==
    gameRooms =>
        /\ Len(players) = 2 =>
              \A id \in Sockets : \A size \in TriedSizes :
                  LET r == addPlayer(players, spectators, gameState, id, size)
                  IN /\ r.spectators = spectators \cup {id}
                     /\ r.players = players
                     /\ r.g = gameState
        /\ \A id \in OnlySpectators :
              /\ ~routed(id)
              /\ variant = "srv" =>
                    \A nationKey \in NationKeys :
                        LET r == selectNation(players, gameState, id, nationKey)
                        IN r.players = players /\ r.g = gameState /\ ~r.ok

\* C11 witness: a connected spectator without a seat watches a room of two seats in
\* which pieces have been placed
C11_SpectatorWatching ==
    /\ gameRooms
    /\ Len(players) = 2
    /\ DOMAIN gameState.board # {}
    /\ \E id \in OnlySpectators : socketRooms[id] = "in"

\* C12: in src/unnamed/part_001 a joinRoom that carries a boardSize other than the
\* room's leaves the seats, the spectators and the GameState as they are, however
\* many seats are taken.
C12_MismatchedJoinFails ==
    variant = "p1" /\ gameRooms =>
        \A id \in Sockets : \A size \in TriedSizes \ {noSize, boardSize} :
            LET r == addPlayer(players, spectators, gameState, id, size)
            IN /\ r.players = players
               /\ r.spectators = spectators
               /\ r.g = gameState


\* C13: in src/server.js a selectNation received from a seat while gamePhase is not
\* nation-selection changes nothing: the seats' nations, player1Nation and
\* player2Nation, both rosters and gamePhase stay as they are.
C13_NationOnlyInItsPhase ==
    variant = "srv" /\ gameRooms /\ gameState.gamePhase # "nation-selection" =>
        \A player \in Seated : \A nationKey \in NationKeys :
            LET r == selectNation(players, gameState, player.id, nationKey)
            IN /\ r.players = players
               /\ r.g.player1Nation = gameState.player1Nation
               /\ r.g.player2Nation = gameState.player2Nation
               /\ r.g.player1Pieces = gameState.player1Pieces
               /\ r.g.player2Pieces = gameState.player2Pieces
               /\ r.g.gamePhase = gameState.gamePhase

\* the nation of a catalog key is held by a seat other than the one asking
heldByOther(player, nationKey) ==
    \E other \in Seated : other.id # player.id /\ other.nation = nationKey

\* C14: in src/server.js a selectNation naming the nation the other seat holds changes
\* nothing, and player1Nation and player2Nation differ whenever both are chosen.
C14_NationsDiffer ==
    variant = "srv" /\ gameRooms =>
        /\ \A player \in Seated : \A nationKey \in NationKeys :
              heldByOther(player, nationKey) =>
                  LET r == selectNation(players, gameState, player.id, nationKey)
                  IN r.players = players /\ r.g = gameState /\ ~r.ok
        /\ gameState.player1Nation # "null" /\ gameState.player2Nation # "null"
              => gameState.player1Nation # gameState.player2Nation

\* C15: in src/server.js, whenever gamePhase is placement the match has two occupied
\* seats and each of them holds a nation.
C15_PlacementAfterBothChose ==
    variant = "srv" /\ gameRooms /\ gameState.gamePhase = "placement" =>
        /\ Len(players) = 2
        /\ \A player \in Seated : player.nation # "null"

\* the place of a phase in the stated sequence
phaseRank(phase) ==
    CASE phase = "waiting" -> 0
      [] phase = "nation-selection" -> 1
      [] phase = "placement" -> 2
      [] phase = "battle" -> 3
      [] OTHER -> 4

\* a step in which a seat leaves the match
SeatLeaves == Len(players') < Len(players)

\* C16: every change of gamePhase goes forward in waiting, nation-selection,
\* placement, battle, ended, or is the return to waiting of a step in which a seat
\* leaves.
C16_PhaseForward ==
    [][gameState'.gamePhase # gameState.gamePhase =>
          \/ phaseRank(gameState'.gamePhase) > phaseRank(gameState.gamePhase)
          \/ gameState'.gamePhase = "waiting" /\ SeatLeaves]_vars

\* C17: a selectCell that removes a General returns a state whose gamePhase is
\* ended, and a match that has ended keeps gamePhase ended while the room lives.
C17_EndedPhaseOnVictory ==
    gameRooms =>
        /\ gameState.gamePhase = "battle" /\ gameState.selectedCell # nullCell =>
              \A p \in Seated : \A cell \in DOMAIN gameState.board :
                  LET r == handleSelectCell(gameState, p, cell[1], cell[2])
                  IN (\E seat \in Seats :
                          Cardinality(Generals(r.g.board, seat))
                              < Cardinality(Generals(gameState.board, seat)))
                     => r.g.gamePhase = "ended"
        /\ gameState.gameEnded => gameState.gamePhase = "ended"

\* the seats whose turn it is
ActiveSeats == {p \in Seated : isPlayerTurn(gameState, p)}

\* a selectCell of the active seat that neither deselects nor is carried out
selectCellRejected(g, row, col) ==
    /\ gameState.selectedCell # nullCell
    /\ gameState.selectedCell # <<row, col>>
    /\ g.hasMoved = gameState.hasMoved
    /\ g.hasAttacked = gameState.hasAttacked

\* C18: an intent of the active seat that is rejected (a placement that puts no
\* piece, an endTurn that passes no turn, a selectCell target that is neither moved
\* to nor attacked) leaves the whole GameState as it was.
C18_RejectedLeavesState ==
    gameRooms =>
        \A p \in ActiveSeats :
            /\ gameState.gamePhase = "placement" =>
                  /\ \A cell \in Probes(gameState) : \A t \in Types :
                        LET r == handlePlacePiece(gameState, p, cell[1], cell[2], t)
                        IN r.g.board = gameState.board => r.g = gameState
                  /\ LET r == handleEndTurn(gameState, p)
                     IN r.g.currentPlayer = gameState.currentPlayer => r.g = gameState
            /\ gameState.gamePhase = "battle" =>
                  \A cell \in Probes(gameState) :
                      LET r == handleSelectCell(gameState, p, cell[1], cell[2])
                      IN selectCellRejected(r.g, cell[1], cell[2]) => r.g = gameState

\* the events of a handler include the snapshot broadcast
Broadcasts(out) == \E i \in 1..Len(out) : out[i] = "gameStateUpdate"

\* C19: every join, leave that keeps the room, selectNation and gameAction that
\* changes the GameState, the seats or the spectators emits a gameStateUpdate in the
\* same handler.
C19_ChangeIsBroadcast ==
    gameRooms =>
        /\ \A id \in Sockets : \A size \in TriedSizes :
              LET r == addPlayer(players, spectators, gameState, id, size)
              IN r.players # players \/ r.spectators # spectators \/ r.g # gameState
                     => Broadcasts(r.out)
        /\ \A id \in Sockets :
              LET r == removePlayer(players, spectators, gameState, id)
              IN ~r.del /\ (r.players # players \/ r.spectators # spectators
                            \/ r.g # gameState)
                     => Broadcasts(r.out)
        /\ variant = "srv" =>
              \A p \in Seated : \A nationKey \in NationKeys :
                  LET r == selectNation(players, gameState, p.id, nationKey)
                  IN r.players # players \/ r.g # gameState => Broadcasts(r.out)
        /\ \A p \in Seated :
              /\ \A cell \in Probes(gameState) :
                    /\ \A t \in Types :
                          LET r == handlePlacePiece(gameState, p, cell[1], cell[2], t)
                          IN r.g # gameState => Broadcasts(r.out)
                    /\ LET r == handleSelectCell(gameState, p, cell[1], cell[2])
                       IN r.g # gameState => Broadcasts(r.out)
              /\ variant = "srv" =>
                    \A t \in Types :
                        LET r == handleSelectPieceType(gameState, p, t)
                        IN r.g # gameState => Broadcasts(r.out)
              /\ LET r == handleEndTurn(gameState, p)
                 IN r.g # gameState => Broadcasts(r.out)
              /\ variant # "srv" =>
                    \A option \in {"lineOfSight", "limitedRange"} :
                        LET r == handleToggleOption(gameState, option)
                        IN r.g # gameState => Broadcasts(r.out)

\* the options toggleOption knows
ToggleNames == {"lineOfSight", "limitedRange"}

\* C20: in src/unnamed/part_000 and part_001, while gamePhase is battle a
\* toggleOption leaves the GameState unchanged, and no step that stays in battle
\* changes lineOfSightEnabled or limitedRangeEnabled.
C20_TogglesLockedInBattle ==
    [][variant # "srv" /\ gameRooms /\ gameState.gamePhase = "battle" =>
          /\ \A option \in ToggleNames :
                handleToggleOption(gameState, option).g = gameState
          /\ gameState'.gamePhase = "battle" =>
                /\ gameState'.lineOfSightEnabled = gameState.lineOfSightEnabled
                /\ gameState'.limitedRangeEnabled = gameState.limitedRangeEnabled]_vars

\* C20 witness: an option switched on before the battle, and the battle going on
C20_ToggledThenBattle ==
    /\ variant # "srv"
    /\ gameRooms
    /\ gameState.gamePhase = "battle"
    /\ gameState.lineOfSightEnabled
    /\ gameState.hasMoved

\* the same piece, whatever its charge direction and whether it was healed
samePiece(p, q) ==
    /\ p.type = q.type
    /\ p.player = q.player
    /\ p.maxHealth = q.maxHealth
    /\ p.nation = q.nation

\* the boards agree on every cell but the listed ones
sameElsewhere(b1, b2, cells) ==
    /\ DOMAIN b1 \ cells = DOMAIN b2 \ cells
    /\ \A x \in DOMAIN b1 \ cells : b1[x] = b2[x]

\* the cells a cleave from a cell reaches
cleaveReach(cell) ==
    {<<cell[1] + d[1], cell[2] + d[2]>> : d \in {<<-1, 0>>, <<1, 0>>, <<0, -1>>, <<0, 1>>}}

\* C21: a placement that changes the board fills an empty cell and touches no other
\* cell; an applied move goes to an empty cell, empties its source, puts the same
\* piece on the destination and touches no other cell; an applied attack removes
\* only pieces whose health it brought to 0 or below; endTurn removes nothing.
C21_NoPieceOverwritten ==
    gameRooms =>
        \A p \in Seated :
            /\ gameState.gamePhase = "placement" =>
                  \A cell \in Probes(gameState) : \A t \in Types :
                      LET r == handlePlacePiece(gameState, p, cell[1], cell[2], t)
                      IN r.g.board # gameState.board =>
                            /\ cell \notin DOMAIN gameState.board
                            /\ cell \in DOMAIN r.g.board
                            /\ sameElsewhere(gameState.board, r.g.board, {cell})
            /\ gameState.gamePhase = "battle" /\ gameState.selectedCell # nullCell =>
                  \A cell \in Probes(gameState) :
                      LET r == handleSelectCell(gameState, p, cell[1], cell[2])
                          from == gameState.selectedCell
                      IN /\ r.g.hasMoved # gameState.hasMoved =>
                               /\ cell \notin DOMAIN gameState.board
                               /\ from \notin DOMAIN r.g.board
                               /\ cell \in DOMAIN r.g.board
                               /\ samePiece(r.g.board[cell], gameState.board[from])
                               /\ sameElsewhere(gameState.board, r.g.board, {from, cell})
                         /\ r.g.hasMoved = gameState.hasMoved =>
                               /\ DOMAIN r.g.board \subseteq DOMAIN gameState.board
                               /\ \A x \in DOMAIN gameState.board \ DOMAIN r.g.board :
                                     /\ r.g.hasAttacked /\ ~gameState.hasAttacked
                                     /\ gameState.board[x].player # gameState.board[from].player
                                     /\ IF x = cell
                                        THEN gameState.board[x].health
                                                 - damageOf(gameState.board[from],
                                                            gameState.board[x],
                                                            from[1], from[2], x[1], x[2]) <= 0
                                        ELSE /\ x \in cleaveReach(from)
                                             /\ gameState.board[x].health <= 1
            /\ DOMAIN handleEndTurn(gameState, p).g.board = DOMAIN gameState.board

\* C21 witness: a battle turn in which a piece was moved and an attack removed a piece
C21_MovedAndKilled ==
    /\ gameRooms
    /\ gameState.gamePhase = "battle"
    /\ gameState.hasMoved
    /\ gameState.hasAttacked
    /\ \E seat \in Seats :
          Cardinality({x \in DOMAIN gameState.board : gameState.board[x].player = seat})
              < Cardinality({x \in DOMAIN gameState.board :
                                gameState.board[x].player = 3 - seat})

\* every piece of a board has a health from 1 to its maxHealth
healthy(board) ==
    \A x \in DOMAIN board : board[x].health >= 1 /\ board[x].health <= board[x].maxHealth

\* C22: in every state every piece on the board has a health of at least 1 and at
\* most its maxHealth.
C22_HealthWithinRange == gameRooms => healthy(gameState.board)

\* C22 witness: after this turn's attack a wounded piece is still on the board
C22_WoundedPieceStands ==
    /\ gameRooms
    /\ gameState.gamePhase = "battle"
    /\ gameState.hasAttacked
    /\ \E x \in DOMAIN gameState.board :
          gameState.board[x].health < gameState.board[x].maxHealth

\* the healing row stated for a seat: the last row for seat 1, row 0 for seat 2
statedHealingRow(seat) == IF seat = 1 THEN height - 1 ELSE 0

\* the ammo a piece type starts with, for the types that carry ammo
carriesAmmo(piece) ==
    piece.type = "Archer" \/ (variant = "srv" /\ piece.type = "Horse Archer")

\* the rows of the board
Rows == 0..(height - 1)

\* what C23 says of a piece and of what it is after arriving on a row
healedAsStated(piece, q, row) ==
    IF row = statedHealingRow(piece.player) /\ ~piece.hasBeenReplenished
       /\ ~(variant = "srv" /\ piece.type = "General")
    THEN /\ q.health = q.maxHealth
         /\ q.maxHealth = piece.maxHealth
         /\ q.hasBeenReplenished
         /\ q.ammo = IF carriesAmmo(piece) THEN pieceTypes(piece.type).ammo ELSE piece.ammo
    ELSE /\ q.health = piece.health
         /\ q.ammo = piece.ammo
         /\ q.hasBeenReplenished = piece.hasBeenReplenished

\* C23: arriving on the owner's healing row heals a piece that was not replenished
\* before (health to maxHealth, ammo to the starting ammo of an ammo-carrying type,
\* hasBeenReplenished set), except a General in src/server.js; any other arrival
\* changes neither health nor ammo nor the flag. This holds of checkForHealing for
\* every piece and row, and of every move a selectCell applies; no selectCell and
\* no endTurn clears a set hasBeenReplenished.
C23_HealedOnce ==
    gameRooms =>
        /\ \A x \in DOMAIN gameState.board : \A row \in Rows :
              healedAsStated(gameState.board[x],
                             checkForHealing(gameState.board[x], row).piece, row)
        /\ \A p \in Seated :
              /\ gameState.gamePhase = "battle" /\ gameState.selectedCell # nullCell =>
                    \A cell \in Probes(gameState) :
                        LET r == handleSelectCell(gameState, p, cell[1], cell[2])
                        IN /\ r.g.hasMoved # gameState.hasMoved =>
                                 healedAsStated(gameState.board[gameState.selectedCell],
                                                r.g.board[cell], cell[1])
                           /\ \A x \in DOMAIN r.g.board \cap DOMAIN gameState.board :
                                 gameState.board[x].hasBeenReplenished
                                     => r.g.board[x].hasBeenReplenished
              /\ LET b == handleEndTurn(gameState, p).g.board
                 IN \A x \in DOMAIN b \cap DOMAIN gameState.board :
                       gameState.board[x].hasBeenReplenished => b[x].hasBeenReplenished

\* C23 witness: a replenished piece of seat 1, wounded since, has just moved onto
\* the healing row again and is still wounded
C23_SecondArrival ==
    /\ gameRooms
    /\ gameState.gamePhase = "battle"
    /\ gameState.currentPlayer = 1
    /\ gameState.hasMoved
    /\ \E x \in DOMAIN gameState.board :
          /\ x[1] = height - 1
          /\ gameState.board[x].player = 1
          /\ gameState.board[x].hasBeenReplenished
          /\ gameState.board[x].health < gameState.board[x].maxHealth

\* the damage C24 states for an attack of a piece at one cell on a piece at another
statedDamage(board, from, to) ==
    IF /\ chargeCapable(board[from])
       /\ board[from].chargeDirection # nullDir
       /\ <<to[1] - from[1], to[2] - from[2]>> = board[from].chargeDirection
       /\ board[to].type # "Heavy Infantry"
    THEN 2
    ELSE 1

\* the unit direction of a straight move of two cells, nullDir for any other move
statedCharge(from, to) ==
    IF manhattan(from[1], from[2], to[1], to[2]) = 2 /\ (from[1] = to[1] \/ from[2] = to[2])
    THEN <<Sign(to[1] - from[1]), Sign(to[2] - from[2])>>
    ELSE nullDir

statedArcherLegal(piece, from, to, g) ==
    LET distance == manhattan(from[1], from[2], to[1], to[2])
        cap == IF variant = "srv" THEN (IF piece.nation = "english" THEN 5 ELSE 4) ELSE 4
        capped == variant = "srv" \/ g.limitedRangeEnabled
        clear == IF from[1] = to[1]
                 THEN \A c \in between(from[2], to[2]) : <<from[1], c>> \notin DOMAIN g.board
                 ELSE \A r \in between(from[1], to[1]) : <<r, from[2]>> \notin DOMAIN g.board
    IN \/ distance = 1
       \/ /\ distance > 1
          /\ piece.ammo > 0
          /\ (from[1] = to[1] \/ from[2] = to[2])
          /\ (capped => distance <= cap)
          /\ (variant # "srv" /\ g.lineOfSightEnabled => clear)

\* the option settings an Archer's attack is judged under
ToggleSettings ==
    IF variant = "srv" THEN {<<FALSE, FALSE>>} ELSE BOOLEAN \X BOOLEAN

\* C25: an Archer's attack on an enemy piece is legal at distance 1 whatever its ammo, and
\* at a greater distance exactly when it has ammo, shares a row or column with the target,
\* is within the range cap where one applies (4 under limitedRangeEnabled in part_000 and
\* part_001; always 4, 5 for an English archer, in server.js) and, under lineOfSightEnabled,
\* has only empty cells between; a selectCell whose attack fails a condition leaves the
\* board, so every health and ammo value and every piece, as it was.
C25_ArcherAttackLegality ==
    gameRooms /\ gameState.gamePhase = "battle" /\ gameState.selectedCell # nullCell
        /\ gameState.selectedCell \in DOMAIN gameState.board
        /\ gameState.board[gameState.selectedCell].type = "Archer" =>
        LET archer == gameState.board[gameState.selectedCell]
            enemies == {x \in DOMAIN gameState.board :
                           inBounds(x[1], x[2]) /\ gameState.board[x].player # archer.player}
        IN /\ ~gameState.hasMoved /\ ~gameState.hasAttacked /\ turns <= 1 =>
              \A ammo \in {0, archer.ammo} : \A t \in ToggleSettings :
                 \A from \in (0..(height - 1)) \X (0..(width - 1)) : \A to \in enemies :
                     LET piece == [archer EXCEPT !.ammo = ammo]
                         g == [gameState EXCEPT !.lineOfSightEnabled = t[1],
                                                !.limitedRangeEnabled = t[2]]
                     IN from # to =>
                           (canAttack(piece, from[1], from[2], to[1], to[2], g)
                               <=> statedArcherLegal(piece, from, to, g))
           /\ \A p \in ActiveSeats : \A to \in enemies :
                 ~statedArcherLegal(archer, gameState.selectedCell, to, gameState) =>
                     handleSelectCell(gameState, p, to[1], to[2]).g.board = gameState.board

\* an Archer has shot at an enemy two cells away and spent ammo on it
C25_ArcherShot ==
    /\ gameRooms
    /\ gameState.gamePhase = "battle"
    /\ gameState.hasAttacked
    /\ \E x \in DOMAIN gameState.board :
          /\ gameState.board[x].type = "Archer"
          /\ gameState.board[x].player = gameState.currentPlayer
          /\ gameState.board[x].ammo < pieceTypes("Archer").ammo
          /\ \E y \in DOMAIN gameState.board :
                /\ gameState.board[y].player # gameState.currentPlayer
                /\ gameState.board[y].health < gameState.board[y].maxHealth
                /\ manhattan(x[1], x[2], y[1], y[2]) > 1
                /\ (x[1] = y[1] \/ x[2] = y[2])

\* the seat's own deployment cells that are empty (server.js)
freeZoneCells(g, playerNumber) ==
    {cell \in (0..(height - 1)) \X (0..(width - 1)) :
        canPlaceInRow(playerNumber, cell[1]) /\ cell \notin DOMAIN g.board}

\* the seat placed four roster pieces in round 1 and only roster pieces since
onRosterSoFar(g, player) ==
    /\ playerNation(g, player.playerNumber) \in {"english", "mongols", "macedonians", "spartans"}
    /\ jsSum(playerPieces(g, player.playerNumber)) # NaN
    /\ jsSum(playerPieces(g, player.playerNumber))
          = jsSum(nations(playerNation(g, player.playerNumber)).pieces) - 4
              - g.piecesPlacedThisTurn

\* C26: in server.js the second placement round can always be completed with roster
\* pieces: while the seat to move has placed fewer than its round quota (nation total
\* minus 4), a selectPieceType of a roster type it still holds followed by a placePiece
\* on a free cell of its zone is applied, and once it has placed the quota its endTurn
\* is accepted.
C26_RoundTwoCompletable ==
    gameRooms /\ variant = "srv" /\ gameState.gamePhase = "placement"
        /\ gameState.placementTurn = 2 =>
        \A p \in ActiveSeats :
            onRosterSoFar(gameState, p) =>
                IF gameState.piecesPlacedThisTurn < requiredPieces(gameState, p)
                THEN \E t \in Types : \E cell \in freeZoneCells(gameState, p.playerNumber) :
                        /\ playerPieces(gameState, p.playerNumber)[t] # undefined
                        /\ playerPieces(gameState, p.playerNumber)[t] > 0
                        /\ handlePlacePiece(handleSelectPieceType(gameState, p, t).g,
                                            p, cell[1], cell[2], t).g.board
                              # gameState.board
                ELSE handleEndTurn(gameState, p).g.currentPlayer # gameState.currentPlayer

\* C27: every piece on the board stands on an in-bounds cell, and a selectCell that
\* names a cell outside the board (row or column out of range) relocates no piece.
C27_MovesStayOnBoard ==
    gameRooms =>
        /\ \A x \in DOMAIN gameState.board : inBounds(x[1], x[2])
        /\ gameState.gamePhase = "battle" /\ gameState.selectedCell # nullCell =>
              \A p \in ActiveSeats : \A cell \in Probes(gameState) :
                  ~inBounds(cell[1], cell[2]) =>
                      DOMAIN handleSelectCell(gameState, p, cell[1], cell[2]).g.board
                          = DOMAIN gameState.board

\* the move legality the specification states for a piece and an empty in-bounds cell
statedMove(piece, from, to) ==
    LET rowDiff == Abs(from[1] - to[1])
        colDiff == Abs(from[2] - to[2])
        mounted == \/ piece.type = "Cavalry"
                   \/ variant = "srv" /\ piece.type = "Horse Archer"
                   \/ variant = "srv" /\ piece.type = "General" /\ piece.nation = "macedonians"
        spartanHeavy == variant = "srv" /\ piece.type = "Heavy Infantry"
                        /\ piece.nation = "spartans"
    IN IF mounted
       THEN (rowDiff = 0 /\ colDiff \in {1, 2}) \/ (colDiff = 0 /\ rowDiff \in {1, 2})
       ELSE \/ rowDiff + colDiff = 1
            \/ spartanHeavy /\ rowDiff = 1 /\ colDiff = 1

\* C28: onto an empty in-bounds cell a standard piece may move exactly at Manhattan
\* distance 1, a Cavalry (in server.js also a Horse Archer and a Macedonian General)
\* exactly 1 or 2 cells along one row or column whatever stands on the cell between, and
\* in server.js a Spartan Heavy Infantry also one cell diagonally; a selectCell relocates
\* the selected piece only by such a move.
C28_MoveLegality ==
    gameRooms /\ gameState.gamePhase = "battle" /\ gameState.selectedCell # nullCell =>
        LET empties == {c \in (0..(height - 1)) \X (0..(width - 1)) :
                           c \notin DOMAIN gameState.board}
        IN /\ ~gameState.hasMoved /\ ~gameState.hasAttacked /\ turns <= 1 =>
              \A from \in DOMAIN gameState.board : \A to \in empties :
                 canMove(gameState.board[from], from[1], from[2], to[1], to[2])
                     <=> statedMove(gameState.board[from], from, to)
           /\ \A p \in ActiveSeats : \A to \in Probes(gameState) :
                 LET r == handleSelectCell(gameState, p, to[1], to[2])
                     from == gameState.selectedCell
                 IN inBounds(to[1], to[2]) /\ DOMAIN r.g.board # DOMAIN gameState.board
                        /\ to \in DOMAIN r.g.board /\ to \notin DOMAIN gameState.board =>
                        /\ from \in DOMAIN gameState.board
                        /\ statedMove(gameState.board[from], from, to)
                        /\ from \notin DOMAIN r.g.board

\* a Cavalry has moved two cells over an occupied cell this turn
C28_CavalryJumped ==
    /\ gameRooms
    /\ gameState.gamePhase = "battle"
    /\ gameState.hasMoved
    /\ \E x \in DOMAIN gameState.board :
          LET piece == gameState.board[x]
          IN /\ piece.type = "Cavalry"
             /\ piece.chargeDirection # nullDir
             /\ <<x[1] - piece.chargeDirection[1], x[2] - piece.chargeDirection[2]>>
                   \in DOMAIN gameState.board

\* the deployment rows the specification states for a seat
statedDeploymentRows(playerNumber) ==
    LET rows == IF variant = "p1" THEN ceilThird(height) ELSE 3
    IN IF playerNumber = 1 THEN 0..(rows - 1) ELSE (height - rows)..(height - 1)

\* the cells a placePiece is tried on: every row around the board, the edge columns and
\* the columns next to them outside the board
PlaceProbes == ((-1)..height) \X {-1, 0, width - 1, width}

\* C29: a placePiece is applied only on an empty cell inside the board that lies in
\* the deployment rows of the seat to move, and throughout the placement phase every
\* piece stands on an in-bounds cell of its owner's deployment rows.
C29_PlacedInOwnZone ==
    gameRooms /\ gameState.gamePhase = "placement" =>
        /\ \A x \in DOMAIN gameState.board :
              /\ inBounds(x[1], x[2])
              /\ x[1] \in statedDeploymentRows(gameState.board[x].player)
        /\ \A p \in ActiveSeats : \A cell \in PlaceProbes : \A t \in Types :
              LET g == IF variant = "srv" THEN handleSelectPieceType(gameState, p, t).g
                       ELSE gameState
                  r == handlePlacePiece(g, p, cell[1], cell[2], t)
              IN r.g.board # gameState.board =>
                    /\ cell \notin DOMAIN gameState.board
                    /\ inBounds(cell[1], cell[2])
                    /\ cell[1] \in statedDeploymentRows(p.playerNumber)

statedAmmoCost(attacker, target, distance) ==
    IF distance > 1
       /\ ~(variant = "srv" /\ attacker.type = "Archer" /\ attacker.nation = "english"
            /\ target.health <= 1)
    THEN 1
    ELSE 0

\* the pieces that can attack from a distance
Shooters(board) ==
    {x \in DOMAIN board : \/ board[x].type = "Archer"
                          \/ variant = "srv" /\ board[x].type = "Horse Archer"}

\* C31: an applied attack at a distance above 1 takes exactly 1 from the attacker's
\* ammo and one at distance 1 leaves it as it is, except that in server.js an English
\* Archer keeps its ammo when the target's health before the damage is at most 1
\* (attackPiece does nothing once gameEnded is set); attackPiece decides the cost the
\* same way for every shooter and every enemy piece on the board at every distance
\* and target health.
C31_AmmoCost ==
    gameRooms /\ gameState.gamePhase = "battle" /\ gameState.selectedCell # nullCell =>
        /\ \A p \in ActiveSeats : \A cell \in Probes(gameState) :
              LET r == handleSelectCell(gameState, p, cell[1], cell[2])
                  from == gameState.selectedCell
              IN r.g.hasAttacked # gameState.hasAttacked /\ ~gameState.gameEnded =>
                    /\ from \in DOMAIN r.g.board
                    /\ r.g.board[from].ammo
                          = gameState.board[from].ammo
                              - statedAmmoCost(gameState.board[from], gameState.board[cell],
                                               manhattan(from[1], from[2], cell[1], cell[2]))
        /\ ~gameState.hasMoved /\ ~gameState.hasAttacked =>
           \A x \in Shooters(gameState.board) : \A y \in DOMAIN gameState.board :
              \A distance \in 1..6 : \A h \in 1..3 :
                  LET target == [gameState.board[y] EXCEPT !.health = h]
                  IN gameState.board[y].player # gameState.board[x].player =>
                        (shouldConsumeAmmo(gameState.board[x], target, distance)
                            <=> statedAmmoCost(gameState.board[x], target, distance) = 1)

\* an Archer of the seat to move has spent one arrow on this turn's attack and
\* nothing is selected any more
C31_ArrowSpent ==
    /\ gameRooms
    /\ gameState.gamePhase = "battle"
    /\ gameState.hasAttacked
    /\ gameState.selectedCell = nullCell
    /\ ~gameState.gameEnded
    /\ \E x \in DOMAIN gameState.board :
          /\ gameState.board[x].type = "Archer"
          /\ gameState.board[x].player = gameState.currentPlayer
          /\ gameState.board[x].ammo = pieceTypes("Archer").ammo - 1

\* up, down, left, right: the order the specification gives the cleave
statedOrder == << <<-1, 0>>, <<1, 0>>, <<0, -1>>, <<0, 1>> >>

\* whether `after` is `before` with the cleave the specification states around the
\* attacker on `from` whose primary target stands on `target`; with stopAtGeneral the
\* cleave ends at the first General it removes
cleaveAsStated(before, after, from, target, stopAtGeneral) ==
    LET cellOf(i) == <<from[1] + statedOrder[i][1], from[2] + statedOrder[i][2]>>
        hit(i) == /\ inBounds(cellOf(i)[1], cellOf(i)[2])
                  /\ cellOf(i) \in DOMAIN before
                  /\ before[cellOf(i)].player # before[from].player
                  /\ cellOf(i) # target
        fatal(i) == hit(i) /\ before[cellOf(i)].type = "General"
                    /\ before[cellOf(i)].health <= 1
        struck(i) == hit(i) /\ (stopAtGeneral => \A j \in 1..(i - 1) : ~fatal(j))
    IN /\ \A i \in 1..4 :
             IF struck(i)
             THEN IF before[cellOf(i)].health - 1 <= 0
                  THEN cellOf(i) \notin DOMAIN after
                  ELSE /\ cellOf(i) \in DOMAIN after
                       /\ after[cellOf(i)]
                             = [before[cellOf(i)] EXCEPT !.health = @ - 1]
             ELSE cellOf(i) \in DOMAIN before =>
                      /\ cellOf(i) \in DOMAIN after
                      /\ after[cellOf(i)] = before[cellOf(i)]
       /\ from \in DOMAIN after /\ after[from] = before[from]

\* the pieces tried on a cell next to the attacker: none, a friend, a fresh enemy
\* Light Infantry, an enemy Light Infantry at health 1, an enemy General at health 1
Neighbours == {"none", "friend", "enemy", "weakEnemy", "weakGeneral"}

neighbourPiece(kind, attacker) ==
    CASE kind = "friend" -> createPieceData("Light Infantry", attacker.player, attacker.nation)
      [] kind = "enemy" -> createPieceData("Light Infantry", 3 - attacker.player, "english")
      [] kind = "weakEnemy" ->
            [createPieceData("Light Infantry", 3 - attacker.player, "english")
                EXCEPT !.health = 1]
      [] kind = "weakGeneral" ->
            [createPieceData("General", 3 - attacker.player, "english") EXCEPT !.health = 1]

\* the board that holds the attacker on `from` and the pieces of `around` next to it
boardAround(attacker, from, around) ==
    LET cellOf(i) == <<from[1] + statedOrder[i][1], from[2] + statedOrder[i][2]>>
        taken == {i \in 1..4 : around[i] # "none" /\ inBounds(cellOf(i)[1], cellOf(i)[2])}
    IN [c \in {from} \cup {cellOf(i) : i \in taken} |->
           IF c = from THEN attacker
           ELSE neighbourPiece(around[CHOOSE i \in taken : cellOf(i) = c], attacker)]

\* the cell of the Spartan Heavy Infantry that is selected in a running match
\* (server.js), or nullCell
cleaverSelected ==
    IF /\ gameRooms /\ variant = "srv" /\ gameState.gamePhase = "battle"
       /\ gameState.selectedCell \in DOMAIN gameState.board
       /\ inBounds(gameState.selectedCell[1], gameState.selectedCell[2])
       /\ gameState.board[gameState.selectedCell].type = "Heavy Infantry"
       /\ gameState.board[gameState.selectedCell].nation = "spartans"
       /\ ~gameState.gameEnded
    THEN gameState.selectedCell
    ELSE nullCell

\* what the cleave does on every board around the selected Spartan Heavy Infantry
\* (tried at the start of the first turn) and on the reachable board itself
cleavesAsStated(stopAtGeneral) ==
    cleaverSelected # nullCell =>
        LET from == cleaverSelected
            attacker == gameState.board[from]
        IN /\ ~gameState.hasMoved /\ ~gameState.hasAttacked /\ turns = 0 =>
              \A around \in [1..4 -> Neighbours] : \A t \in 1..4 :
                 LET target == <<from[1] + statedOrder[t][1], from[2] + statedOrder[t][2]>>
                     before == boardAround(attacker, from, around)
                     r == handleSpartanCleave([gameState EXCEPT !.board = before],
                                              from[1], from[2], target[1], target[2])
                     felled == \E c \in DOMAIN before \ DOMAIN r.g.board :
                                   before[c].type = "General"
                 IN around[t] \in {"enemy", "weakEnemy", "weakGeneral"}
                        /\ target \in DOMAIN before =>
                        /\ cleaveAsStated(before, r.g.board, from, target, stopAtGeneral)
                        /\ r.g.gameEnded = felled
                        /\ felled => r.g.winner = attacker.player
           /\ \A p \in ActiveSeats : \A cell \in DOMAIN gameState.board :
                 LET r == handleSelectCell(gameState, p, cell[1], cell[2])
                     struckFirst == [gameState.board EXCEPT ![cell].health = @ - 1]
                 IN r.g.hasAttacked # gameState.hasAttacked =>
                       cleaveAsStated(struckFirst,
                                      IF cell \in DOMAIN r.g.board THEN r.g.board
                                      ELSE put(r.g.board, cell, struckFirst[cell]),
                                      from, cell, stopAtGeneral)

\* C32 as amended: in server.js an applied attack of a Spartan Heavy Infantry also
\* takes exactly 1 from every enemy piece on the cells up, down, left and right of the
\* attacker, in that order, other than the primary target, removes each such piece
\* whose health reaches 0 and ends the match for the attacker's seat if that piece is
\* a General, after which the remaining directions are not visited; friendly pieces,
\* the primary target and the attacker receive no cleave damage.
C32_CleaveUntilGeneralFalls == cleavesAsStated(TRUE)

\* C32 as stated: the cleave reaches every enemy piece next to the attacker other than
\* the primary target, also those in the directions after a General it has removed.
C32_CleaveEveryNeighbour == cleavesAsStated(FALSE)

\* a Spartan Heavy Infantry of the seat to move has attacked, and two enemy pieces
\* next to it are wounded
C32_CleaveLanded ==
    /\ gameRooms /\ variant = "srv"
    /\ gameState.gamePhase = "battle"
    /\ gameState.hasAttacked
    /\ \E x \in DOMAIN gameState.board :
          /\ gameState.board[x].type = "Heavy Infantry"
          /\ gameState.board[x].nation = "spartans"
          /\ gameState.board[x].player = gameState.currentPlayer
          /\ Cardinality({y \in DOMAIN gameState.board :
                             /\ manhattan(x[1], x[2], y[1], y[2]) = 1
                             /\ gameState.board[y].player # gameState.currentPlayer
                             /\ gameState.board[y].health < gameState.board[y].maxHealth})
                >= 2

\* C33: in part_000 an attack is applied only when hasMoved is true: hasAttacked is
\* never true in a turn without hasMoved, and a selectCell on an enemy piece before
\* the seat has moved leaves the board, so every health, and hasAttacked as they are.
C33_MoveThenAttack ==
    gameRooms /\ variant = "p0" =>
        /\ gameState.hasAttacked => gameState.hasMoved
        /\ gameState.gamePhase = "battle" /\ gameState.selectedCell # nullCell
               /\ ~gameState.hasMoved =>
              \A p \in ActiveSeats : \A cell \in DOMAIN gameState.board :
                  LET r == handleSelectCell(gameState, p, cell[1], cell[2])
                  IN gameState.board[cell].player # p.playerNumber =>
                        /\ r.g.board = gameState.board
                        /\ ~r.g.hasAttacked

\* in part_000 a seat that has not moved this turn has one of its pieces selected
\* next to an enemy piece
C33_AttackBeforeMoveTried ==
    /\ gameRooms /\ variant = "p0"
    /\ gameState.gamePhase = "battle"
    /\ ~gameState.hasMoved /\ ~gameState.hasAttacked
    /\ gameState.selectedCell \in DOMAIN gameState.board
    /\ \E y \in DOMAIN gameState.board :
          /\ gameState.board[y].player # gameState.currentPlayer
          /\ manhattan(gameState.selectedCell[1], gameState.selectedCell[2], y[1], y[2]) = 1

\* C34: in part_001 and server.js an attack the rules allow is applied whether or not
\* the seat has moved, as long as it has not attacked this turn, and a move is applied
\* only when hasMoved and hasAttacked are both false, so no move follows an attack
\* within a turn.
C34_AttackWithoutMoving ==
    gameRooms /\ variant # "p0" /\ gameState.gamePhase = "battle"
        /\ gameState.selectedCell \in DOMAIN gameState.board =>
        \A p \in ActiveSeats : \A cell \in Probes(gameState) :
            LET r == handleSelectCell(gameState, p, cell[1], cell[2])
                from == gameState.selectedCell
            IN /\ Arrived(gameState.board, r.g.board) =>
                     ~gameState.hasMoved /\ ~gameState.hasAttacked
               /\ gameState.hasAttacked => DOMAIN r.g.board = DOMAIN gameState.board
               /\ cell \in DOMAIN gameState.board
                     /\ gameState.board[cell].player # gameState.board[from].player
                     /\ canAttack(gameState.board[from], from[1], from[2],
                                  cell[1], cell[2], gameState)
                     /\ ~gameState.hasAttacked =>
                     /\ r.g.hasAttacked
                     /\ ~gameState.gameEnded =>
                           \/ cell \notin DOMAIN r.g.board
                           \/ r.g.board[cell].health < gameState.board[cell].health

\* in part_001 or server.js a seat has attacked without moving, an enemy piece is
\* wounded, and the seat has a piece selected that could step to an empty cell
C34_AttackedWithoutMoving ==
    /\ gameRooms /\ variant # "p0"
    /\ gameState.gamePhase = "battle"
    /\ gameState.hasAttacked /\ ~gameState.hasMoved
    /\ gameState.selectedCell \in DOMAIN gameState.board
    /\ \E y \in DOMAIN gameState.board :
          /\ gameState.board[y].player # gameState.currentPlayer
          /\ gameState.board[y].health < gameState.board[y].maxHealth
    /\ \E cell \in Probes(gameState) :
          /\ cell \notin DOMAIN gameState.board
          /\ canMove(gameState.board[gameState.selectedCell], gameState.selectedCell[1],
                     gameState.selectedCell[2], cell[1], cell[2])

\* C35: every seat of the match is held by a connection whose intents are routed to
\* this match: a connection that has sent joinRoom for another room holds no seat here.
C35_SeatsAreRoutedHere ==
    gameRooms => \A i \in 1..Len(players) : socketRooms[players[i].id] = "in"

\* a selection, if there is one, is a piece of the seat to move in the battle phase
selectionIsOwnPiece(g) ==
    g.selectedCell # nullCell =>
        /\ g.gamePhase = "battle"
        /\ g.selectedCell \in DOMAIN g.board
        /\ g.board[g.selectedCell].player = g.currentPlayer

unitVectors == {<<1, 0>>, <<-1, 0>>, <<0, 1>>, <<0, -1>>}

chargedCells(g) == {x \in DOMAIN g.board : g.board[x].chargeDirection # nullDir}

\* at most one charge, of the seat to move, after its move, along a unit vector
oneChargeOfTheMover(g) ==
    /\ Cardinality(chargedCells(g)) <= 1
    /\ \A x \in chargedCells(g) :
          /\ g.hasMoved
          /\ g.board[x].player = g.currentPlayer
          /\ g.board[x].chargeDirection \in unitVectors

ammoWithinStart(g) ==
    \A x \in DOMAIN g.board :
        carriesAmmo(g.board[x]) =>
            /\ g.board[x].ammo >= 0
            /\ g.board[x].ammo <= pieceTypes(g.board[x].type).ammo

\* C38: the ammo of every ammo-carrying piece on the board is between 0 and the
\* starting ammo of its type (3 for an Archer, 2 for a Horse Archer), in every
\* reachable state and, in battle, after every selectCell of a probe cell that
\* the seat to move sends with a piece selected.  The step is also taken from every ammo within the range: a healing
\* of the piece on any row, healed before or not, and an attack or move of the
\* piece once selected, leave the ammo within the range.
C38_AmmoWithinStart ==
    /\ gameRooms => ammoWithinStart(gameState)
    /\ (gameRooms /\ gameState.gamePhase = "battle") =>
        /\ pieceTypes("Archer").ammo = 3
        /\ pieceTypes("Horse Archer").ammo = 2
        /\ gameState.selectedCell # nullCell =>
              \A p \in ActiveSeats : \A cell \in Probes(gameState) :
                  ammoWithinStart(handleSelectCell(gameState, p, cell[1], cell[2]).g)
        /\ \A x \in DOMAIN gameState.board :
              carriesAmmo(gameState.board[x]) =>
                  \A ammo \in 0..pieceTypes(gameState.board[x].type).ammo :
                      LET piece == [gameState.board[x] EXCEPT !.ammo = ammo]
                          g == [gameState EXCEPT !.board[x] = piece]
                      IN /\ ~gameState.hasMoved /\ ~gameState.hasAttacked /\ turns = 0 =>
                            \A row \in 0..(height - 1) : \A healed \in BOOLEAN :
                                LET q == checkForHealing(
                                             [piece EXCEPT !.hasBeenReplenished = healed],
                                             row).piece
                                IN q.ammo >= 0 /\ q.ammo <= pieceTypes(q.type).ammo
                         /\ x = gameState.selectedCell =>
                               \A p \in ActiveSeats : \A cell \in Probes(gameState) :
                                   ammoWithinStart(
                                       handleSelectCell(g, p, cell[1], cell[2]).g)
                         /\ /\ gameState.selectedCell = nullCell
                            /\ ~gameState.hasMoved /\ ~gameState.hasAttacked /\ turns = 0
                            /\ piece.player = gameState.currentPlayer
                            => \A p \in ActiveSeats :
                                  LET sel == handleSelectCell(g, p, x[1], x[2]).g
                                  IN \A cell \in Probes(sel) :
                                        ammoWithinStart(
                                            handleSelectCell(sel, p, cell[1], cell[2]).g)

\* an ammo-carrying piece has shot twice
C38_TwoArrowsSpent ==
    /\ gameRooms /\ gameState.gamePhase = "battle"
    /\ \E x \in DOMAIN gameState.board :
          /\ carriesAmmo(gameState.board[x])
          /\ gameState.board[x].ammo = pieceTypes(gameState.board[x].type).ammo - 2

\* C39: in the battle phase gameEnded is true if and only if some seat has no
\* General on the board, winner is non-null exactly when gameEnded is true, and
\* winner is then the seat whose General is still on the board.
C39_EndedIffGeneralGone ==
    (gameRooms /\ gameState.gamePhase = "battle") =>
        /\ gameState.gameEnded <=> (\E seat \in Seats : Generals(gameState.board, seat) = {})
        /\ (gameState.winner # 0) <=> gameState.gameEnded
        /\ gameState.gameEnded =>
              /\ gameState.winner \in Seats
              /\ Generals(gameState.board, gameState.winner) # {}

\* the pieces of a seat on the board
piecesOfSeat(board, seat) == {x \in DOMAIN board : board[x].player = seat}

\* nothing is left of a roster
rosterSpent(pieces) == \A t \in Types : pieces[t] \in {0, undefined}

\* both rosters are spent and each seat has 8 pieces on the board, one of them a General
fullArmies(g) ==
    /\ rosterSpent(g.player1Pieces)
    /\ rosterSpent(g.player2Pieces)
    /\ \A seat \in Seats :
          /\ Cardinality(piecesOfSeat(g.board, seat)) = 8
          /\ Cardinality(Generals(g.board, seat)) = 1

\* C40: in part_000 and part_001, at the moment gamePhase becomes battle both seats'
\* remaining rosters are zero for every piece type and the board holds exactly 8
\* pieces of each seat, exactly one of them a General; and during battle the
\* number of pieces of each seat on the board never increases.
C40_FullArmiesAtBattle ==
    (gameRooms /\ variant # "srv") =>
        \A p \in Seated :
            /\ LET r == handleEndTurn(gameState, p).g
               IN (gameState.gamePhase # "battle" /\ r.gamePhase = "battle")
                      => fullArmies(r)
            /\ gameState.gamePhase = "battle" =>
                  \A cell \in Probes(gameState) : \A t \in Types :
                      \A r \in {handleSelectCell(gameState, p, cell[1], cell[2]).g,
                                 handlePlacePiece(gameState, p, cell[1], cell[2], t).g,
                                 handleEndTurn(gameState, p).g} :
                          r.gamePhase = "battle" =>
                              \A seat \in Seats :
                                  Cardinality(piecesOfSeat(r.board, seat))
                                      <= Cardinality(piecesOfSeat(gameState.board, seat))

====
